---- MODULE Spec2Model ----
(***************************************************************************)
(* Merge orchestration of nyaarium/scripts:                                *)
(*   - CI aggregation         getCIStatus (tool) / checkCIStatus (CLI)     *)
(*   - approve-and-merge batch githubApprovePr.handler / github-approve-pr *)
(*   - agent-driven merge     cursorMergePullRequest.handler (two copies)  *)
(* Every collaborator call (a spawned `gh`) is one step whose outcome is   *)
(* chosen by the environment.                                              *)
(***************************************************************************)
EXTENDS Integers, Sequences, FiniteSets, TLC

VARIABLES
    impl,            \* which copy of the code runs
    pc,              \* position of the handler (the await it is suspended on)
    prNumbers,       \* input: the batch
    shouldMerge,     \* input: merge after approve
    idx,             \* for (const prNumber of prNumbers): position in the batch
    results,         \* const results = []
    errors,          \* const errors = []
    repoSettings,    \* let repoSettings = null
    alreadyApproved, \* let alreadyApproved = false
    authWarning,     \* let authWarning = null
    reviews,         \* const reviews = JSON.parse(stdout) inside getExistingApproval
    sha,             \* const sha = prStatus.headSha inside getCIStatus
    ciStatus,        \* const ciStatus
    prStatus,        \* const prStatus
    mergeStrategy,   \* let mergeStrategy = null
    mergeMessage,    \* let mergeMessage = ""
    canProceed,      \* let canProceed = true
    checkRuns,       \* check-runs list handed to the aggregation
    approved,        \* GitHub: PRs carrying an APPROVED review of the current user
    calls,           \* every collaborator call issued so far, in order
    faults,          \* how many collaborator calls the environment lets fail
    failed,          \* the collaborator calls that failed so far, in order
    ret,             \* what the handler returned or threw
    agentStatus,     \* cursorMergePullRequest: const agentStatus
    prStats,         \* cursorMergePullRequest: const prStats
    rebaseResult,    \* cursorMergePullRequest: const rebaseResult
    ghRepo,          \* GitHub: the repository JSON it serves (Null: any, chosen at the call)
    ghStderr,        \* runGh: let stderr = "", what the last `gh` wrote to it
    pollStatus,      \* cursorWaitUntilDone: let status = "CREATING"
    attempts,        \* cursorWaitUntilDone: let attempts = 0
    ghHead           \* GitHub: the head commit of the PRs

vars == << impl, pc, prNumbers, shouldMerge, idx, results, errors, repoSettings,
           alreadyApproved, authWarning, reviews, sha, ciStatus, prStatus,
           mergeStrategy, mergeMessage, canProceed, checkRuns, approved,
           calls, faults, failed, ret, agentStatus, prStats, rebaseResult, ghRepo, ghStderr,
           pollStatus, attempts, ghHead >>

agentVars == << agentStatus, prStats, rebaseResult >>

envVars == << faults, ghRepo, ghHead >>

waitVars == << pollStatus, attempts >>

batchVars == << prNumbers, shouldMerge, idx, results, errors, alreadyApproved, authWarning,
                reviews, sha, prStatus, mergeStrategy, mergeMessage, canProceed,
                approved >>

----------------------------------------------------------------------------
(* Bounds *)

MaxRuns == 2          \* check-runs per commit in the aggregation specification
MaxBatchRuns == 2     \* check-runs per commit in the batch specification
MaxPRs == 2           \* PR numbers per batch
MaxFailures == 1      \* failing collaborator calls per invocation

----------------------------------------------------------------------------
(* Values *)

Null == [null |-> TRUE]

Impls == {"tool", "cli"}

PRs == {"101", "102"}

Statuses == {"completed", "in_progress", "queued"}

Conclusions == {"success", "failure", "cancelled", "neutral", "null"}

CheckNames == {"build", "test"}

CheckRun == [name : CheckNames, status : Statuses, conclusion : Conclusions]

RECURSIVE SeqsUpTo(_, _)
SeqsUpTo(S, n) ==
    IF n = 0 THEN {<< >>}
    ELSE LET shorter == SeqsUpTo(S, n - 1)
         IN  shorter \cup {Append(s, x) : s \in {t \in shorter : Len(t) = n - 1}, x \in S}

(* A message is the sequence of its words. *)
RECURSIVE Join(_)
Join(names) ==
    IF Len(names) = 0 THEN << >>
    ELSE IF Len(names) = 1 THEN << names[1] >>
    ELSE << names[1], "," >> \o Join(Tail(names))

Names(list) == [i \in 1..Len(list) |-> list[i].name]

Includes(msg, part) ==
    \E i \in 0..(Len(msg) - Len(part)) :
        \A j \in 1..Len(part) : msg[i + j] = part[j]

----------------------------------------------------------------------------
(* CI aggregation *)

CheckInfo(i, check) ==
    [name |-> check.name,
     status |-> check.status,
     conclusion |-> IF i = "tool" /\ check.conclusion = "null" THEN "" ELSE check.conclusion]

EmptyStatus ==
    [overall |-> "success", required |-> << >>, optional |-> << >>,
     stillRunning |-> << >>, errors |-> << >>, canMerge |-> TRUE, message |-> << >>]

(* ClassifyCheck looking at the status before the conclusion *)
ClassifyCheckStatusFirst(i, status, check) ==
    IF check.status = "in_progress" \/ check.status = "queued"
    THEN [status EXCEPT !.stillRunning = Append(@, CheckInfo(i, check)), !.canMerge = FALSE]
    ELSE IF check.conclusion = "failure" \/ check.conclusion = "cancelled"
    THEN [status EXCEPT !.errors = Append(@, CheckInfo(i, check)), !.canMerge = FALSE]
    ELSE IF check.conclusion = "success"
    THEN [status EXCEPT !.required = Append(@, CheckInfo(i, check))]
    ELSE [status EXCEPT !.optional = Append(@, CheckInfo(i, check))]

(* ClassifyCheck with the running test as an if of its own instead of else if *)
ClassifyCheckNoElse(i, status, check) ==
    LET first == IF check.conclusion = "failure" \/ check.conclusion = "cancelled"
                 THEN [status EXCEPT !.errors = Append(@, CheckInfo(i, check)), !.canMerge = FALSE]
                 ELSE status
    IN  IF check.status = "in_progress" \/ check.status = "queued"
        THEN [first EXCEPT !.stillRunning = Append(@, CheckInfo(i, check)), !.canMerge = FALSE]
        ELSE IF check.conclusion = "failure" \/ check.conclusion = "cancelled"
        THEN first
        ELSE IF check.conclusion = "success"
        THEN [first EXCEPT !.required = Append(@, CheckInfo(i, check))]
        ELSE [first EXCEPT !.optional = Append(@, CheckInfo(i, check))]

ClassifyCheck(i, status, check) ==
    IF check.conclusion = "failure" \/ check.conclusion = "cancelled"
    THEN [status EXCEPT !.errors = Append(@, CheckInfo(i, check)), !.canMerge = FALSE]
    ELSE IF check.status = "in_progress" \/ check.status = "queued"
    THEN [status EXCEPT !.stillRunning = Append(@, CheckInfo(i, check)), !.canMerge = FALSE]
    ELSE IF check.conclusion = "success"
    THEN [status EXCEPT !.required = Append(@, CheckInfo(i, check))]
    ELSE [status EXCEPT !.optional = Append(@, CheckInfo(i, check))]

RECURSIVE ClassifyAll(_, _, _)
ClassifyAll(i, status, runs) ==
    IF runs = << >> THEN status
    ELSE ClassifyAll(i, ClassifyCheck(i, status, Head(runs)), Tail(runs))

(* OverallOf asking for running checks before failed ones *)
OverallOfPendingFirst(status) ==
    IF Len(status.stillRunning) > 0
    THEN [status EXCEPT !.overall = "pending"]
    ELSE IF Len(status.errors) > 0
    THEN [status EXCEPT !.overall = "failure"]
    ELSE IF Len(status.required) > 0
    THEN [status EXCEPT !.overall = "success"]
    ELSE [status EXCEPT !.overall = "no_checks"]

OverallOf(status) ==
    IF Len(status.errors) > 0
    THEN [status EXCEPT !.overall = "failure",
                        !.message = << "CI", "checks", "failed", ":" >> \o Join(Names(status.errors))]
    ELSE IF Len(status.stillRunning) > 0
    THEN [status EXCEPT !.overall = "pending",
                        !.message = << "CI", "checks", "still", "running", ":" >>
                                    \o Join(Names(status.stillRunning))]
    ELSE IF Len(status.required) > 0
    THEN [status EXCEPT !.overall = "success",
                        !.message = << "All", "CI", "checks", "passed" >>]
    ELSE [status EXCEPT !.overall = "no_checks",
                        !.message = << "No", "CI", "checks", "found" >>]

AggregateCI(i, runs) == OverallOf(ClassifyAll(i, EmptyStatus, runs))

----------------------------------------------------------------------------
(* Collaborator values *)

Bools == {TRUE, FALSE}

(* Merge methods a repository allows: all three, then one fewer at a time *)
MethodFlags ==
    { [m |-> TRUE, r |-> TRUE, s |-> TRUE], [m |-> FALSE, r |-> TRUE, s |-> TRUE],
      [m |-> FALSE, r |-> FALSE, s |-> TRUE], [m |-> FALSE, r |-> FALSE, s |-> FALSE] }

(* JSON of `gh api repos/:owner/:repo`, the fields the code reads *)
RepoJson(a, msg, title, f) ==
    [allow_auto_merge |-> a, merge_commit_message |-> msg, merge_commit_title |-> title,
     allow_merge_commit |-> f.m, allow_rebase_merge |-> f.r, allow_squash_merge |-> f.s,
     archived |-> FALSE, disabled |-> FALSE, private |-> FALSE]

(* The merge methods vary where auto-merge is allowed, the only case they are
   read in *)
RepoData ==
    { RepoJson(a, msg, title, f) :
      a \in Bools, msg \in {"PR_TITLE", "PR_BODY"}, title \in {"PR_TITLE", "MERGE_MESSAGE"},
      f \in MethodFlags } \
    { RepoJson(FALSE, msg, title, f) :
      msg \in {"PR_TITLE", "PR_BODY"}, title \in {"PR_TITLE", "MERGE_MESSAGE"},
      f \in {g \in MethodFlags : ~g.m} }

ToolSettingsOf(data) ==
    [allowAutoMerge |-> data.allow_auto_merge = TRUE,
     linearHistory |-> data.merge_commit_message = "PR_TITLE" /\ data.merge_commit_title = "PR_TITLE",
     isDraft |-> data.archived = FALSE /\ data.disabled = FALSE /\ data.private = FALSE,
     allowMergeCommit |-> data.allow_merge_commit = TRUE,
     allowRebaseMerge |-> data.allow_rebase_merge = TRUE,
     allowSquashMerge |-> data.allow_squash_merge = TRUE]

CliSettingsOf(data) ==
    [allowAutoMerge |-> data.allow_auto_merge = TRUE,
     linearHistory |-> data.merge_commit_message = "PR_TITLE" /\ data.merge_commit_title = "PR_TITLE",
     isDraft |-> data.archived = FALSE /\ data.disabled = FALSE /\ data.private = FALSE]

(* What `gh api repos/:owner/:repo` may answer *)
ServedRepoData == IF ghRepo = Null THEN RepoData ELSE {ghRepo}

SettingsOf(i, data) == IF i = "tool" THEN ToolSettingsOf(data) ELSE CliSettingsOf(data)

(* repoSettings?.field *)
Opt(rs, field) == IF rs = Null THEN FALSE ELSE rs[field]

(* stderr of a failed `gh`, as words *)
GenericErr == << "HTTP", "404" >>

AuthErrs == { << "not", "authenticated" >>, << "gh", "auth", "login" >>,
              << "authentication", "required" >> }

ApprovalCheckErrs == {GenericErr} \cup AuthErrs

(* Reviews another account, or the current user in another state, left on a PR *)
OtherReviews == { [login |-> "bob", state |-> "APPROVED"],
                  [login |-> "me", state |-> "COMMENTED"] }

MyApproval == [login |-> "me", state |-> "APPROVED"]

(* The check-runs GitHub reports for a commit: any of these, in this order *)
AllBatchRuns ==
    << [name |-> "build", status |-> "completed", conclusion |-> "success"],
       [name |-> "test", status |-> "completed", conclusion |-> "failure"],
       [name |-> "lint", status |-> "in_progress", conclusion |-> "null"] >>

RECURSIVE SubSeqs(_)
SubSeqs(s) ==
    IF s = << >> THEN {<< >>}
    ELSE LET rest == SubSeqs(Tail(s))
         IN  rest \cup {<< Head(s) >> \o t : t \in rest}

BatchCheckRuns == {runs \in SubSeqs(AllBatchRuns) : Len(runs) <= MaxBatchRuns}

(* The batches handed to the handler; the first PR is called 101 *)
Batches == {b \in SeqsUpTo(PRs, MaxPRs) : b # << >> /\ b[1] = "101"}

ThePRStatus(s) ==
    [mergeable |-> TRUE, mergeableState |-> "clean", headSha |-> s,
     baseRef |-> "main", headRef |-> "feature"]

----------------------------------------------------------------------------
(* Merge decision: githubApprovePr.handler / main *)

LinearAutoMsg == << "Linear", "history", "required", "-", "using", "auto-merge" >>

RebaseRequiredMsg ==
    << "Linear", "history", "required", "but", "auto-merge", "disabled", ".",
       "Rebase", "required", "." >>

SuccessMsg == << "All", "checks", "passed", "-", "proceeding", "with", "merge" >>

PendingAutoMsg(ci) ==
    << "CI", "still", "running", "-", "auto-merge", "will", "complete", "after", ":" >>
    \o Join(Names(ci.stillRunning))

(* PendingBlockedMsg listing the failed checks instead of the running ones *)
PendingBlockedMsgErrors(ci) ==
    << "CI", "still", "running", "-", "manual", "merge", "blocked", ".", "Waiting", "for", ":" >>
    \o Join(Names(ci.errors))

PendingBlockedMsg(ci) ==
    << "CI", "still", "running", "-", "manual", "merge", "blocked", ".", "Waiting", "for", ":" >>
    \o Join(Names(ci.stillRunning))

FailureAutoMsg(ci) ==
    << "CI", "has", "failed", "but", "required", "checks", "exist", "-", "auto-merge",
       "will", "proceed", ".", "Errors", ":" >> \o Join(Names(ci.errors))

FailureBlockedMsg(ci) ==
    << "CI", "failed", "-", "merge", "blocked", ".", "Errors", ":" >> \o Join(Names(ci.errors))

NoChecksMsg == << "No", "CI", "checks", "found", "-", "proceeding", "with", "merge" >>

(* DeclareLocals with the three declarations hoisted out of the loop *)
DeclareLocalsHoisted ==
    [mergeStrategy |-> mergeStrategy, mergeMessage |-> mergeMessage, canProceed |-> canProceed]

(* let mergeStrategy = null; let mergeMessage = ""; let canProceed = true; *)
DeclareLocals ==
    [mergeStrategy |-> "null", mergeMessage |-> << >>, canProceed |-> TRUE]

(* AutoOrManual never asking for auto-merge *)
AutoOrManualAlwaysManual(rs) == "manual-merge"

(* repoSettings?.allowAutoMerge ? "auto-merge" : "manual-merge" *)
AutoOrManual(rs) == IF Opt(rs, "allowAutoMerge") THEN "auto-merge" ELSE "manual-merge"

(* Decide without the linear-history branch *)
DecideCIOnly(l, rs, ci) ==
    IF ci.overall = "success"
    THEN [l EXCEPT !.mergeStrategy = AutoOrManual(rs), !.mergeMessage = SuccessMsg]
    ELSE IF ci.overall = "pending"
    THEN IF Opt(rs, "allowAutoMerge")
         THEN [l EXCEPT !.mergeStrategy = "auto-merge", !.mergeMessage = PendingAutoMsg(ci)]
         ELSE [l EXCEPT !.canProceed = FALSE, !.mergeMessage = PendingBlockedMsg(ci)]
    ELSE IF ci.overall = "failure"
    THEN IF Len(ci.required) > 0 /\ Opt(rs, "allowAutoMerge")
         THEN [l EXCEPT !.mergeStrategy = "auto-merge", !.mergeMessage = FailureAutoMsg(ci)]
         ELSE [l EXCEPT !.canProceed = FALSE, !.mergeMessage = FailureBlockedMsg(ci)]
    ELSE [l EXCEPT !.mergeStrategy = AutoOrManual(rs), !.mergeMessage = NoChecksMsg]

(* Decide letting auto-merge override failures without asking for a passed check *)
DecideFailureOverride(l, rs, ci) ==
    IF Opt(rs, "linearHistory")
    THEN IF rs.allowAutoMerge
         THEN [l EXCEPT !.mergeStrategy = "auto-merge", !.mergeMessage = LinearAutoMsg]
         ELSE [l EXCEPT !.canProceed = FALSE, !.mergeMessage = RebaseRequiredMsg]
    ELSE IF ci.overall = "success"
    THEN [l EXCEPT !.mergeStrategy = AutoOrManual(rs), !.mergeMessage = SuccessMsg]
    ELSE IF ci.overall = "pending"
    THEN IF Opt(rs, "allowAutoMerge")
         THEN [l EXCEPT !.mergeStrategy = "auto-merge", !.mergeMessage = PendingAutoMsg(ci)]
         ELSE [l EXCEPT !.canProceed = FALSE, !.mergeMessage = PendingBlockedMsg(ci)]
    ELSE IF ci.overall = "failure"
    THEN IF Opt(rs, "allowAutoMerge")
         THEN [l EXCEPT !.mergeStrategy = "auto-merge", !.mergeMessage = FailureAutoMsg(ci)]
         ELSE [l EXCEPT !.canProceed = FALSE, !.mergeMessage = FailureBlockedMsg(ci)]
    ELSE [l EXCEPT !.mergeStrategy = AutoOrManual(rs), !.mergeMessage = NoChecksMsg]

(* Decide letting a passed check override failures without allowAutoMerge *)
DecideFailureIgnoresAutoMerge(l, rs, ci) ==
    IF Opt(rs, "linearHistory")
    THEN IF rs.allowAutoMerge
         THEN [l EXCEPT !.mergeStrategy = "auto-merge", !.mergeMessage = LinearAutoMsg]
         ELSE [l EXCEPT !.canProceed = FALSE, !.mergeMessage = RebaseRequiredMsg]
    ELSE IF ci.overall = "success"
    THEN [l EXCEPT !.mergeStrategy = AutoOrManual(rs), !.mergeMessage = SuccessMsg]
    ELSE IF ci.overall = "pending"
    THEN IF Opt(rs, "allowAutoMerge")
         THEN [l EXCEPT !.mergeStrategy = "auto-merge", !.mergeMessage = PendingAutoMsg(ci)]
         ELSE [l EXCEPT !.canProceed = FALSE, !.mergeMessage = PendingBlockedMsg(ci)]
    ELSE IF ci.overall = "failure"
    THEN IF Len(ci.required) > 0
         THEN [l EXCEPT !.mergeStrategy = AutoOrManual(rs), !.mergeMessage = FailureAutoMsg(ci)]
         ELSE [l EXCEPT !.canProceed = FALSE, !.mergeMessage = FailureBlockedMsg(ci)]
    ELSE [l EXCEPT !.mergeStrategy = AutoOrManual(rs), !.mergeMessage = NoChecksMsg]

(* Decide letting failed checks stop the auto-merge of a linear-history repository *)
DecideLinearChecksCI(l, rs, ci) ==
    IF Opt(rs, "linearHistory")
    THEN IF rs.allowAutoMerge /\ ci.overall # "failure"
         THEN [l EXCEPT !.mergeStrategy = "auto-merge", !.mergeMessage = LinearAutoMsg]
         ELSE [l EXCEPT !.canProceed = FALSE, !.mergeMessage = RebaseRequiredMsg]
    ELSE IF ci.overall = "success"
    THEN [l EXCEPT !.mergeStrategy = AutoOrManual(rs), !.mergeMessage = SuccessMsg]
    ELSE IF ci.overall = "pending"
    THEN IF Opt(rs, "allowAutoMerge")
         THEN [l EXCEPT !.mergeStrategy = "auto-merge", !.mergeMessage = PendingAutoMsg(ci)]
         ELSE [l EXCEPT !.canProceed = FALSE, !.mergeMessage = PendingBlockedMsg(ci)]
    ELSE IF ci.overall = "failure"
    THEN IF Len(ci.required) > 0 /\ Opt(rs, "allowAutoMerge")
         THEN [l EXCEPT !.mergeStrategy = "auto-merge", !.mergeMessage = FailureAutoMsg(ci)]
         ELSE [l EXCEPT !.canProceed = FALSE, !.mergeMessage = FailureBlockedMsg(ci)]
    ELSE [l EXCEPT !.mergeStrategy = AutoOrManual(rs), !.mergeMessage = NoChecksMsg]

Decide(l, rs, ci) ==
    IF Opt(rs, "linearHistory")
    THEN IF rs.allowAutoMerge
         THEN [l EXCEPT !.mergeStrategy = "auto-merge", !.mergeMessage = LinearAutoMsg]
         ELSE [l EXCEPT !.canProceed = FALSE, !.mergeMessage = RebaseRequiredMsg]
    ELSE IF ci.overall = "success"
    THEN [l EXCEPT !.mergeStrategy = AutoOrManual(rs), !.mergeMessage = SuccessMsg]
    ELSE IF ci.overall = "pending"
    THEN IF Opt(rs, "allowAutoMerge")
         THEN [l EXCEPT !.mergeStrategy = "auto-merge", !.mergeMessage = PendingAutoMsg(ci)]
         ELSE [l EXCEPT !.canProceed = FALSE, !.mergeMessage = PendingBlockedMsg(ci)]
    ELSE IF ci.overall = "failure"
    THEN IF Len(ci.required) > 0 /\ Opt(rs, "allowAutoMerge")
         THEN [l EXCEPT !.mergeStrategy = "auto-merge", !.mergeMessage = FailureAutoMsg(ci)]
         ELSE [l EXCEPT !.canProceed = FALSE, !.mergeMessage = FailureBlockedMsg(ci)]
    ELSE [l EXCEPT !.mergeStrategy = AutoOrManual(rs), !.mergeMessage = NoChecksMsg]

(* The collaborator call `if (canProceed && mergeStrategy)` leads to *)
MergeCall(i, strategy, rs, pr) ==
    IF strategy = "auto-merge"
    THEN IF i = "cli" THEN [fn |-> "enableAutoMerge", pr |-> pr, mode |-> "m"]
         ELSE IF Opt(rs, "allowMergeCommit") THEN [fn |-> "enableAutoMerge", pr |-> pr, mode |-> "m"]
         ELSE IF Opt(rs, "allowRebaseMerge") THEN [fn |-> "enableAutoMerge", pr |-> pr, mode |-> "r"]
         ELSE IF Opt(rs, "allowSquashMerge") THEN [fn |-> "enableAutoMerge", pr |-> pr, mode |-> "s"]
         ELSE [fn |-> "manualMerge", pr |-> pr, mode |-> "-"]
    ELSE [fn |-> "manualMerge", pr |-> pr, mode |-> "-"]

(* The arguments `gh pr merge <pr>` is spawned with by enableAutoMerge and
   manualMerge *)
MergeArgs(i, c) ==
    IF c.fn = "manualMerge" THEN {"--merge"}
    ELSE IF i = "cli" THEN {"--auto", "--merge"}
    ELSE {"--auto", "--merge"} \cup {IF c.mode = "m" THEN "-m" ELSE IF c.mode = "r" THEN "-r" ELSE "-s"}

----------------------------------------------------------------------------
(* Approve-and-merge batch: githubApprovePr.handler (tool) and main (cli) *)

(* CurPR walking the batch from its end *)
CurPRReversed == prNumbers[Len(prNumbers) + 1 - idx]

(* for (const prNumber of prNumbers) *)
CurPR == prNumbers[idx]

Call(fn, pr, mode) == calls' = Append(calls, [fn |-> fn, pr |-> pr, mode |-> mode])

(* The rejection of a collaborator call, with what its `gh` wrote to stderr *)
FailWith(fn, pr, text) ==
    /\ failed' = Append(failed, [fn |-> fn, pr |-> pr])
    /\ ghStderr' = text

(* A collaborator call that resolves: exit code 0 *)
NoFail ==
    /\ failed' = failed
    /\ ghStderr' = << >>

Fail(fn, pr) == FailWith(fn, pr, GenericErr)

(* Message of the Error a failed collaborator call rejects with *)
CallError(i, fn, stderr) ==
    IF i = "tool" THEN stderr ELSE << "Failed", fn, ":" >> \o stderr

(* getCurrentUser of the cli tells an authentication failure apart *)
UserError(i, stderr) ==
    IF i = "tool" THEN stderr
    ELSE IF \/ Includes(stderr, << "authentication" >>)
            \/ Includes(stderr, << "not", "authenticated" >>)
            \/ Includes(stderr, << "gh", "auth", "login" >>)
         THEN << "NOT_AUTHENTICATED" >>
         ELSE CallError(i, "user", stderr)

AuthWarningMsg ==
    << "GitHub", "CLI", "not", "authenticated", "-", "please", "run", "gh", "auth", "login" >>

(* catch (e) around the already-approved check: the warning it leaves *)
ApprovalCheckCatch(i, message) ==
    IF i = "tool"
    THEN IF Includes(message, << "authenticated" >>) \/ Includes(message, << "NOT_AUTHENTICATED" >>)
         THEN AuthWarningMsg ELSE << >>
    ELSE IF message = << "NOT_AUTHENTICATED" >> THEN AuthWarningMsg ELSE << >>

ErrorEntry(pr, message, ci, prs) ==
    [prNumber |-> pr, error |-> message, ciStatus |-> ci, prStatus |-> prs]

(* OuterCatch letting the error leave the handler *)
OuterCatchRethrow(message) ==
    /\ errors' = errors
    /\ pc' = "thrown"

(* OuterCatch after which the iteration goes on to the merge *)
OuterCatchProceeds(message) ==
    /\ errors' = Append(errors, ErrorEntry(CurPR, message, Null, Null))
    /\ pc' = IF shouldMerge THEN "ciPr" ELSE "loop"

(* catch (e) of the whole iteration *)
OuterCatch(message) ==
    /\ errors' = Append(errors, ErrorEntry(CurPR, message, Null, Null))
    /\ pc' = "loop"

(* MergeCatch swallowing the error *)
MergeCatchSilent(message) ==
    /\ errors' = errors
    /\ pc' = "loop"

(* catch (e) of the merge block *)
MergeCatch(message) ==
    /\ errors' = Append(errors,
                        ErrorEntry(CurPR, << "Merge", "validation", "failed", ":" >> \o message,
                                   Null, Null))
    /\ pc' = "loop"

ApprovedResult(i, pr, warning) ==
    [success |-> TRUE, prNumber |-> pr,
     output |-> IF i = "tool" THEN << "Approved" >> ELSE << "stdout" >>,
     skipped |-> FALSE, authWarning |-> warning, mergeResult |-> Null]

SkippedResult(pr, warning) ==
    [success |-> TRUE, prNumber |-> pr, output |-> << "Already", "approved" >>,
     skipped |-> TRUE, authWarning |-> warning, mergeResult |-> Null]

(* PushResult entering the merge block whatever the flag *)
PushResultAlwaysMerges(result) ==
    /\ results' = Append(results, result)
    /\ pc' = "ciPr"

(* results.push(result); if (shouldMerge) ... *)
PushResult(result) ==
    /\ results' = Append(results, result)
    /\ pc' = IF shouldMerge THEN "ciPr" ELSE "loop"

(* result.mergeResult = {...}: result is the entry pushed in this iteration *)
SetMergeResult(strategy, message, ci, prs) ==
    results' = [results EXCEPT ![Len(results)].mergeResult =
                   [strategy |-> strategy, message |-> message, ciStatus |-> ci, prStatus |-> prs]]

(* gh auth status: exit code, stderr, or the spawn failing *)
GhAuthOutcomes ==
    [kind : {"exit"}, code : {0, 1}, stderr : {GenericErr} \cup AuthErrs]
    \cup {[kind |-> "spawnError", code |-> 1, stderr |-> << >>]}

CheckGHCLIResult(o) ==
    IF o.kind = "spawnError"
    THEN [available |-> FALSE, authenticated |-> FALSE, error |-> << "GitHub", "CLI", "not", "found" >>]
    ELSE IF o.code = 0
    THEN [available |-> TRUE, authenticated |-> TRUE, error |-> << >>]
    ELSE IF Includes(o.stderr, << "not", "authenticated" >>) \/ Includes(o.stderr, << "gh", "auth", "login" >>)
    THEN [available |-> TRUE, authenticated |-> FALSE,
          error |-> << "GitHub", "CLI", "not", "authenticated" >>]
    ELSE [available |-> FALSE, authenticated |-> FALSE, error |-> << "GitHub", "CLI", "not", "found" >>]

CheckGHCLI ==
    /\ pc = "checkGHCLI"
    /\ Call("authStatus", "", "-")
    /\ \E o \in GhAuthOutcomes :
         LET ghStatus == CheckGHCLIResult(o)
         IN  IF ~ghStatus.available
             THEN /\ pc' = "thrown"
                  /\ ret' = [kind |-> "threw",
                             message |-> << "GitHub", "CLI", "not", "found", ":" >> \o ghStatus.error]
             ELSE IF ~ghStatus.authenticated
             THEN /\ pc' = "thrown"
                  /\ ret' = [kind |-> "threw",
                             message |-> << "GitHub", "CLI", "not", "authenticated", ":" >>
                                         \o ghStatus.error]
             ELSE /\ pc' = "settings"
                  /\ ret' = ret
    /\ UNCHANGED << impl, prNumbers, shouldMerge, idx, results, errors, repoSettings,
                    alreadyApproved, authWarning, reviews, sha, ciStatus, prStatus,
                    mergeStrategy, mergeMessage, canProceed, checkRuns, approved, failed, ghStderr >>
    /\ UNCHANGED agentVars
    /\ UNCHANGED envVars
    /\ UNCHANGED waitVars

(* SettingsCatch falling back to permissive settings *)
SettingsCatchDefaults ==
    [allowAutoMerge |-> TRUE, linearHistory |-> FALSE, isDraft |-> FALSE,
     allowMergeCommit |-> TRUE, allowRebaseMerge |-> TRUE, allowSquashMerge |-> TRUE]

(* catch { // proceed without }: repoSettings keeps the null it was declared with *)
SettingsCatch == Null

GetRepoSettings ==
    /\ pc = "settings"
    /\ pc' = "loop"
    /\ IF shouldMerge
       THEN /\ Call("repoSettings", "", "-")
            /\ \/ \E data \in ServedRepoData :
                    /\ repoSettings' = SettingsOf(impl, data)
                    /\ NoFail
               \/ /\ Len(failed) < faults
                  /\ repoSettings' = SettingsCatch
                  /\ Fail("repoSettings", "")
       ELSE UNCHANGED << calls, repoSettings, failed, ghStderr >>
    /\ UNCHANGED << impl, prNumbers, shouldMerge, idx, results, errors,
                    alreadyApproved, authWarning, reviews, sha, ciStatus, prStatus,
                    mergeStrategy, mergeMessage, canProceed, checkRuns, approved, ret >>
    /\ UNCHANGED agentVars
    /\ UNCHANGED envVars
    /\ UNCHANGED waitVars

ForNext ==
    /\ pc = "loop"
    /\ idx < Len(prNumbers)
    /\ idx' = idx + 1
    /\ alreadyApproved' = FALSE
    /\ authWarning' = << >>
    /\ reviews' = {}
    /\ sha' = ""
    /\ ciStatus' = Null
    /\ prStatus' = Null
    /\ pc' = "reviews"
    /\ UNCHANGED << impl, prNumbers, shouldMerge, results, errors, repoSettings,
                    mergeStrategy, mergeMessage, canProceed, checkRuns, approved,
                    calls, failed, ghStderr, ret >>
    /\ UNCHANGED agentVars
    /\ UNCHANGED envVars
    /\ UNCHANGED waitVars

(* Summary counting as successful the requested PRs without an error entry *)
SummarySuccessfulWithoutError ==
    [total |-> Len(prNumbers), successful |-> Len(prNumbers) - Len(errors), failed |-> Len(errors),
     repositorySettings |-> IF shouldMerge THEN repoSettings ELSE Null,
     results |-> results, errors |-> errors]

Summary ==
    [total |-> Len(prNumbers), successful |-> Len(results), failed |-> Len(errors),
     repositorySettings |-> IF shouldMerge THEN repoSettings ELSE Null,
     results |-> results, errors |-> errors]

(* z.object({ name, status, conclusion: z.string(), url }) *)
SchemaAcceptsCheck(c) == c.conclusion # "null"

(* OutputCIStatusSchema *)
SchemaAcceptsCI(ci) ==
    /\ ci.overall \in {"success", "pending", "failure", "no_checks"}
    /\ \A k \in 1..Len(ci.required) : SchemaAcceptsCheck(ci.required[k])
    /\ \A k \in 1..Len(ci.optional) : SchemaAcceptsCheck(ci.optional[k])
    /\ \A k \in 1..Len(ci.stillRunning) : SchemaAcceptsCheck(ci.stillRunning[k])
    /\ \A k \in 1..Len(ci.errors) : SchemaAcceptsCheck(ci.errors[k])

(* OutputSchema.parse(summary) does not throw; mergeResult and the ciStatus of
   an error entry are optional *)
OutputSchemaAccepts(summary) ==
    /\ summary.repositorySettings # Null =>
         {"allowAutoMerge", "linearHistory", "isDraft"} \subseteq DOMAIN summary.repositorySettings
    /\ \A k \in 1..Len(summary.results) :
         summary.results[k].mergeResult # Null =>
             /\ summary.results[k].mergeResult.strategy \in {"auto-merge", "manual-merge", "blocked"}
             /\ SchemaAcceptsCI(summary.results[k].mergeResult.ciStatus)
    /\ \A k \in 1..Len(summary.errors) :
         summary.errors[k].ciStatus # Null => SchemaAcceptsCI(summary.errors[k].ciStatus)

(* The exit code of the cli: process.exit(1) after a failed validation or
   with errors.length > 0, otherwise main ends *)
ExitCode(summary) ==
    IF ~OutputSchemaAccepts(summary) THEN 1
    ELSE IF Len(summary.errors) > 0 THEN 1
    ELSE 0

ReturnSummary ==
    /\ pc = "loop"
    /\ idx = Len(prNumbers)
    /\ pc' = "done"
    /\ ret' = IF impl = "cli"
              THEN [kind |-> "returned", data |-> Summary, exitCode |-> ExitCode(Summary)]
              ELSE [kind |-> "returned", data |-> Summary]
    /\ UNCHANGED << impl, prNumbers, shouldMerge, idx, results, errors, repoSettings,
                    alreadyApproved, authWarning, reviews, sha, ciStatus, prStatus,
                    mergeStrategy, mergeMessage, canProceed, checkRuns, approved,
                    calls, failed, ghStderr >>
    /\ UNCHANGED agentVars
    /\ UNCHANGED envVars
    /\ UNCHANGED waitVars

(* getExistingApproval, first call: the reviews of the PR *)
FetchReviews ==
    /\ pc = "reviews"
    /\ Call("reviews", CurPR, "-")
    /\ \/ \E others \in {{}, OtherReviews} :
            /\ reviews' = others \cup (IF CurPR \in approved THEN {MyApproval} ELSE {})
            /\ pc' = "user"
            /\ UNCHANGED authWarning /\ NoFail
       \/ \E stderr \in ApprovalCheckErrs :
            /\ Len(failed) < faults
            /\ FailWith("reviews", CurPR, stderr)
            /\ authWarning' = ApprovalCheckCatch(impl, CallError(impl, "reviews", stderr))
            /\ pc' = "approve"
            /\ UNCHANGED reviews
    /\ UNCHANGED << impl, prNumbers, shouldMerge, idx, results, errors, repoSettings,
                    alreadyApproved, sha, ciStatus, prStatus,
                    mergeStrategy, mergeMessage, canProceed, checkRuns, approved, ret >>
    /\ UNCHANGED agentVars
    /\ UNCHANGED envVars
    /\ UNCHANGED waitVars

(* HasApproved comparing the review state in lower case *)
HasApprovedLowerCase(rv, login) ==
    \E r \in rv : r.login = login /\ r.state = "approved"

(* reviews.some((r) => r.user?.login === currentUser?.login && r.state === "APPROVED") *)
HasApproved(rv, login) ==
    \E r \in rv : r.login = login /\ r.state = "APPROVED"

(* getExistingApproval, second call: the current user; then lines 59-63 *)
GetCurrentUser ==
    /\ pc = "user"
    /\ Call("user", CurPR, "-")
    /\ \/ \E login \in {"me"} :
            LET has == HasApproved(reviews, login)
            IN  /\ alreadyApproved' = has
                /\ IF has
                   THEN PushResult(SkippedResult(CurPR, authWarning))
                   ELSE pc' = "approve" /\ UNCHANGED results
                /\ UNCHANGED authWarning /\ NoFail
       \/ \E stderr \in ApprovalCheckErrs :
            /\ Len(failed) < faults
            /\ FailWith("user", CurPR, stderr)
            /\ authWarning' = ApprovalCheckCatch(impl, UserError(impl, stderr))
            /\ pc' = "approve"
            /\ UNCHANGED << alreadyApproved, results >>
    /\ UNCHANGED << impl, prNumbers, shouldMerge, idx, errors, repoSettings,
                    reviews, sha, ciStatus, prStatus,
                    mergeStrategy, mergeMessage, canProceed, checkRuns, approved, ret >>
    /\ UNCHANGED agentVars
    /\ UNCHANGED envVars
    /\ UNCHANGED waitVars

ApprovePR ==
    /\ pc = "approve"
    /\ Call("approve", CurPR, "-")
    /\ \/ /\ approved' = approved \cup {CurPR}
          /\ PushResult(ApprovedResult(impl, CurPR, authWarning))
          /\ UNCHANGED errors /\ NoFail
       \/ /\ Len(failed) < faults
          /\ Fail("approve", CurPR)
          /\ OuterCatch(CallError(impl, "approve", GenericErr))
          /\ UNCHANGED << approved, results >>
    /\ UNCHANGED << impl, prNumbers, shouldMerge, idx, repoSettings,
                    alreadyApproved, authWarning, reviews, sha, ciStatus, prStatus,
                    mergeStrategy, mergeMessage, canProceed, checkRuns, ret >>
    /\ UNCHANGED agentVars
    /\ UNCHANGED envVars
    /\ UNCHANGED waitVars



(* getCIStatus, first call: the PR, for its head SHA *)
GetCIPRStatus ==
    /\ pc = "ciPr"
    /\ Call("prStatus", CurPR, "-")
    /\ \/ /\ sha' = ghHead
          /\ pc' = "ciRuns"
          /\ UNCHANGED errors /\ NoFail
       \/ /\ impl = "tool"
          /\ Len(failed) < faults
          /\ Fail("prStatus", CurPR)
          /\ MergeCatch(<< "No", "head", "SHA", "for", "PR" >>)
          /\ UNCHANGED sha
       \/ /\ Len(failed) < faults
          /\ Fail("prStatus", CurPR)
          /\ MergeCatch(CallError(impl, "prStatus", GenericErr))
          /\ UNCHANGED sha
    /\ UNCHANGED << impl, prNumbers, shouldMerge, idx, results, repoSettings,
                    alreadyApproved, authWarning, reviews, ciStatus, prStatus,
                    mergeStrategy, mergeMessage, canProceed, checkRuns, approved, ret >>
    /\ UNCHANGED agentVars
    /\ UNCHANGED envVars
    /\ UNCHANGED waitVars

(* getCIStatus, second call: the check-runs of that commit, then the aggregation *)
GetCheckRuns ==
    /\ pc = "ciRuns"
    /\ Call("checkRuns", CurPR, "-")
    /\ \/ \E runs \in BatchCheckRuns :
            /\ ciStatus' = AggregateCI(impl, runs)
            /\ pc' = "prStatus"
            /\ UNCHANGED errors /\ NoFail
       \/ /\ Len(failed) < faults
          /\ Fail("checkRuns", CurPR)
          /\ MergeCatch(CallError(impl, "checkRuns", GenericErr))
          /\ UNCHANGED ciStatus
    /\ UNCHANGED << impl, prNumbers, shouldMerge, idx, results, repoSettings,
                    alreadyApproved, authWarning, reviews, sha, prStatus,
                    mergeStrategy, mergeMessage, canProceed, checkRuns, approved, ret >>
    /\ UNCHANGED agentVars
    /\ UNCHANGED envVars
    /\ UNCHANGED waitVars

(* BlockedBranch raising the blocked merge as an Error *)
BlockedBranchThrows(message, ci, prs) ==
    /\ MergeCatch(<< "Merge", "blocked", ":" >> \o message)
    /\ UNCHANGED results

(* else of `if (canProceed && mergeStrategy)`: the blocked decision is recorded
   in the result and in errors *)
BlockedBranch(message, ci, prs) ==
    /\ SetMergeResult("blocked", message, ci, prs)
    /\ errors' = Append(errors,
                        ErrorEntry(CurPR, << "Merge", "blocked", ":" >> \o message, ci, prs))
    /\ pc' = "loop"

(* getPRStatus, then the decision of lines 70-106 and the blocked branch *)
GetPRStatus ==
    /\ pc = "prStatus"
    /\ Call("prStatus", CurPR, "-")
    /\ \/ LET l == Decide(DeclareLocals, repoSettings, ciStatus)
              prs == ThePRStatus(ghHead)
          IN  /\ prStatus' = prs
              /\ mergeStrategy' = l.mergeStrategy
              /\ mergeMessage' = l.mergeMessage
              /\ canProceed' = l.canProceed
              /\ IF l.canProceed /\ l.mergeStrategy # "null"
                 THEN pc' = "merge" /\ UNCHANGED << results, errors >>
                 ELSE BlockedBranch(l.mergeMessage, ciStatus, prs)
              /\ NoFail
       \/ /\ Len(failed) < faults
          /\ Fail("prStatus", CurPR)
          /\ MergeCatch(CallError(impl, "prStatus", GenericErr))
          /\ UNCHANGED << results, prStatus, mergeStrategy, mergeMessage, canProceed >>
    /\ UNCHANGED << impl, prNumbers, shouldMerge, idx, repoSettings,
                    alreadyApproved, authWarning, reviews, sha, ciStatus,
                    checkRuns, approved, ret >>
    /\ UNCHANGED agentVars
    /\ UNCHANGED envVars
    /\ UNCHANGED waitVars

(* enableAutoMerge / manualMerge, then result.mergeResult = {...} *)
ExecuteMerge ==
    /\ pc = "merge"
    /\ calls' = Append(calls, MergeCall(impl, mergeStrategy, repoSettings, CurPR))
    /\ \/ /\ SetMergeResult(mergeStrategy, mergeMessage, ciStatus, prStatus)
          /\ pc' = "loop"
          /\ UNCHANGED errors /\ NoFail
       \/ /\ Len(failed) < faults
          /\ Fail("merge", CurPR)
          /\ MergeCatch(CallError(impl, "merge", GenericErr))
          /\ UNCHANGED results
    /\ UNCHANGED << impl, prNumbers, shouldMerge, idx, repoSettings,
                    alreadyApproved, authWarning, reviews, sha, ciStatus, prStatus,
                    mergeStrategy, mergeMessage, canProceed, checkRuns, approved, ret >>
    /\ UNCHANGED agentVars
    /\ UNCHANGED envVars
    /\ UNCHANGED waitVars

Init ==
    /\ impl \in Impls
    /\ prNumbers \in Batches
    /\ shouldMerge \in Bools
    /\ approved \in SUBSET {"101"}
    /\ pc = IF impl = "tool" THEN "checkGHCLI" ELSE "settings"
    /\ idx = 0
    /\ results = << >>
    /\ errors = << >>
    /\ repoSettings = Null
    /\ alreadyApproved = FALSE
    /\ authWarning = << >>
    /\ reviews = {}
    /\ sha = ""
    /\ ciStatus = Null
    /\ prStatus = Null
    /\ mergeStrategy = "null"
    /\ mergeMessage = << >>
    /\ canProceed = TRUE
    /\ checkRuns = << >>
    /\ calls = << >>
    /\ faults = MaxFailures
    /\ failed = << >>
    /\ ret = Null
    /\ agentStatus = Null
    /\ prStats = Null
    /\ rebaseResult = Null
    /\ ghHead = "sha1"
    /\ ghStderr = << >>
    /\ pollStatus = ""
    /\ attempts = 0
    /\ ghRepo = Null

Next ==
    \/ CheckGHCLI
    \/ GetRepoSettings
    \/ ForNext
    \/ ReturnSummary
    \/ FetchReviews
    \/ GetCurrentUser
    \/ ApprovePR
    \/ GetCIPRStatus
    \/ GetCheckRuns
    \/ GetPRStatus
    \/ ExecuteMerge

Spec == Init /\ [][Next]_vars

----------------------------------------------------------------------------
(* CI aggregation on its own: getCIStatus / checkCIStatus applied to a list *)

InitCI ==
    /\ impl \in Impls
    /\ checkRuns \in SeqsUpTo(CheckRun, MaxRuns)
    /\ pc = "aggregate"
    /\ prNumbers = << >>
    /\ shouldMerge = FALSE
    /\ approved = {}
    /\ idx = 0
    /\ results = << >>
    /\ errors = << >>
    /\ repoSettings = Null
    /\ alreadyApproved = FALSE
    /\ authWarning = << >>
    /\ reviews = {}
    /\ sha = ""
    /\ ciStatus = Null
    /\ prStatus = Null
    /\ mergeStrategy = "null"
    /\ mergeMessage = << >>
    /\ canProceed = TRUE
    /\ calls = << >>
    /\ faults = MaxFailures
    /\ failed = << >>
    /\ ret = Null
    /\ agentStatus = Null
    /\ prStats = Null
    /\ rebaseResult = Null
    /\ ghHead = "sha1"
    /\ ghStderr = << >>
    /\ pollStatus = ""
    /\ attempts = 0
    /\ ghRepo = Null

AggregateRuns ==
    /\ pc = "aggregate"
    /\ ciStatus' = AggregateCI(impl, checkRuns)
    /\ pc' = "aggregated"
    /\ UNCHANGED << impl, checkRuns, repoSettings, calls, failed, ghStderr, ret >>
    /\ UNCHANGED batchVars
    /\ UNCHANGED agentVars
    /\ UNCHANGED envVars
    /\ UNCHANGED waitVars

NextCI == AggregateRuns

SpecCI == InitCI /\ [][NextCI]_vars

----------------------------------------------------------------------------
(* Agent-driven merge: cursorMergePullRequest.handler                      *)
(*   agentTool   tools/cursorAgent/tools  (errors are thrown)              *)
(*   agentScript manage-agent.js          (errors are caught and returned) *)

AgentImpls == {"agentTool", "agentScript"}

AgentPR == "101"

PrUrls == {"none", "valid", "invalid"}

RebaseErrs ==
    { GenericErr, << "merge", "conflict" >>, << "conflict", "in", "file" >>,
      << "Conflict" >>, << >> }

(* gh api .../update-branch: exit code and stderr, or the spawn failing *)
RebaseOutcomes ==
    [kind : {"exit"}, code : {0, 1}, stderr : RebaseErrs]
    \cup {[kind |-> "spawnError", code |-> 1, stderr |-> << "spawn", "gh", "ENOENT" >>]}

(* AttemptRebaseResult recognising only the words "merge conflict" *)
AttemptRebaseResultMergeOnly(o) ==
    IF o.code = 0
    THEN [success |-> TRUE, needsManualRebase |-> FALSE, error |-> << >>]
    ELSE [success |-> FALSE,
          needsManualRebase |-> Includes(o.stderr, << "merge", "conflict" >>),
          error |-> o.stderr]

AttemptRebaseResult(o) ==
    IF o.code = 0
    THEN [success |-> TRUE, needsManualRebase |-> FALSE, error |-> << >>]
    ELSE [success |-> FALSE,
          needsManualRebase |-> Includes(o.stderr, << "conflict" >>)
                                \/ Includes(o.stderr, << "merge", "conflict" >>),
          error |-> o.stderr]

(* RebaseBranch without the throw for a failure that is no conflict *)
RebaseBranchFallThrough(r) ==
    IF r.success THEN "merge"
    ELSE IF r.needsManualRebase THEN "advice"
    ELSE "merge"

(* if (!rebaseResult.success) { if (rebaseResult.needsManualRebase) return ...; throw / return } *)
RebaseBranch(r) ==
    IF r.success THEN "merge"
    ELSE IF r.needsManualRebase THEN "advice"
    ELSE "fail"

(* UseAutoMerge never asking for auto-merge *)
UseAutoMergeNever(rs) == FALSE

(* const useAutoMerge = repoSettings.allowAutoMerge *)
UseAutoMerge(rs) == rs.allowAutoMerge

ConflictAdvice(stats) ==
    << "Cannot", "rebase", "to", stats.baseRef, "due", "to", "conflicts", ".",
       "Recommended", "course", "of", "action", "is", "to", "use", "cursorAddFollowUp" >>

(* return { success: false, message, ... } *)
AgentReturn(ok, message) ==
    /\ pc' = "done"
    /\ ret' = [kind |-> "returned", success |-> ok, message |-> message]

(* An Error leaves the handler of the tool; the script catches it and returns *)
AgentThrow(message) ==
    IF impl = "agentTool"
    THEN /\ pc' = "thrown"
         /\ ret' = [kind |-> "threw", success |-> FALSE, message |-> message]
    ELSE AgentReturn(FALSE, << "Error", "merging", "PR", ":" >> \o message)

GetAgentStatus ==
    /\ pc = "agentStatus"
    /\ Call("cursorGetAgentStatus", "", "-")
    /\ \/ \E url \in PrUrls :
            /\ agentStatus' = [target |-> [prUrl |-> url]]
            /\ IF url = "none"
               THEN AgentReturn(FALSE, << "No", "changes", "made", ",", "nothing", "to", "PR", "." >>)
               ELSE pc' = "agentGh" /\ UNCHANGED ret
            /\ NoFail
       \/ /\ AgentThrow(<< "Request", "failed" >>)
          /\ Fail("cursorGetAgentStatus", "")
          /\ UNCHANGED agentStatus
    /\ UNCHANGED << impl, checkRuns, repoSettings, ciStatus, prStats, rebaseResult >>
    /\ UNCHANGED batchVars
    /\ UNCHANGED envVars
    /\ UNCHANGED waitVars

(* checkGHCLI, then extractRepoFromURL *)
AgentCheckGHCLI ==
    /\ pc = "agentGh"
    /\ Call("authStatus", "", "-")
    /\ \E o \in GhAuthOutcomes :
         LET ghStatus == CheckGHCLIResult(o)
         IN  IF ~ghStatus.available
             THEN IF impl = "agentTool"
                  THEN AgentThrow(<< "GitHub", "CLI", "not", "found", ":" >> \o ghStatus.error)
                  ELSE AgentReturn(FALSE, << "GitHub", "CLI", "not", "found", ":" >> \o ghStatus.error)
             ELSE IF ~ghStatus.authenticated
             THEN IF impl = "agentTool"
                  THEN AgentThrow(<< "GitHub", "CLI", "not", "authenticated", ":" >> \o ghStatus.error)
                  ELSE AgentReturn(FALSE, << "GitHub", "CLI", "not", "authenticated", ":" >>
                                          \o ghStatus.error)
             ELSE IF agentStatus.target.prUrl = "invalid"
             THEN AgentThrow(<< "Invalid", "GitHub", "PR", "URL" >>)
             ELSE pc' = "prStats" /\ UNCHANGED ret
    /\ UNCHANGED << impl, checkRuns, repoSettings, ciStatus, failed, ghStderr >>
    /\ UNCHANGED agentVars
    /\ UNCHANGED envVars
    /\ UNCHANGED waitVars
    /\ UNCHANGED batchVars

(* CheckPRStats looking at the state before the merged flag *)
CheckPRStatsStateFirst(stats) ==
    IF stats.state # "open" THEN "canceled"
    ELSE IF stats.merged THEN "merged"
    ELSE "open"

(* if (prStats.merged) return ...; if (prStats.state !== "open") return ...; *)
CheckPRStats(stats) ==
    IF stats.merged THEN "merged"
    ELSE IF stats.state # "open" THEN "canceled"
    ELSE "open"

CollectPRStats ==
    /\ pc = "prStats"
    /\ Call("collectPRStats", AgentPR, "-")
    /\ \/ \E merged \in Bools, state \in {"open", "closed"} :
            LET stats == [exists |-> TRUE, state |-> state, merged |-> merged,
                          baseRef |-> "main", headRef |-> "feature"]
            IN  /\ prStats' = stats
                /\ IF CheckPRStats(stats) = "merged"
                   THEN AgentReturn(FALSE, << "This", "PR", "has", "already", "been", "merged", "." >>)
                   ELSE IF CheckPRStats(stats) = "canceled"
                   THEN AgentReturn(FALSE, << "This", "PR", "has", "been", "canceled", "." >>)
                   ELSE pc' = "agentSettings" /\ UNCHANGED ret
                /\ NoFail
       \/ /\ AgentThrow(<< "Failed", "to", "get", "PR", "details", ":" >> \o GenericErr)
          /\ Fail("collectPRStats", AgentPR)
          /\ UNCHANGED prStats
    /\ UNCHANGED << impl, checkRuns, repoSettings, ciStatus, agentStatus, rebaseResult >>
    /\ UNCHANGED batchVars
    /\ UNCHANGED envVars
    /\ UNCHANGED waitVars

CheckRepositorySettings ==
    /\ pc = "agentSettings"
    /\ Call("checkRepositorySettings", "", "-")
    /\ \/ \E data \in ServedRepoData :
            /\ repoSettings' = CliSettingsOf(data)
            /\ pc' = "rebase"
            /\ UNCHANGED ret /\ NoFail
       \/ /\ AgentThrow(<< "Failed", "to", "check", "repository", "settings", ":" >> \o GenericErr)
          /\ Fail("checkRepositorySettings", "")
          /\ UNCHANGED repoSettings
    /\ UNCHANGED << impl, checkRuns, ciStatus >>
    /\ UNCHANGED agentVars
    /\ UNCHANGED envVars
    /\ UNCHANGED waitVars
    /\ UNCHANGED batchVars

(* attemptRebase, then the branch on rebaseResult *)
AttemptRebase ==
    /\ pc = "rebase"
    /\ Call("attemptRebase", AgentPR, "-")
    /\ \E o \in RebaseOutcomes :
         IF o.kind = "spawnError"
         THEN /\ AgentThrow(<< "Failed", "to", "execute", "rebase", ":" >> \o o.stderr)
              /\ Fail("attemptRebase", AgentPR)
              /\ UNCHANGED rebaseResult
         ELSE LET r == AttemptRebaseResult(o)
              IN  /\ rebaseResult' = r
                  /\ IF o.code = 0 THEN NoFail ELSE FailWith("attemptRebase", AgentPR, o.stderr)
                  /\ IF RebaseBranch(r) = "merge"
                     THEN pc' = "mergePR" /\ UNCHANGED ret
                     ELSE IF RebaseBranch(r) = "advice"
                     THEN AgentReturn(FALSE, ConflictAdvice(prStats))
                     ELSE IF impl = "agentTool"
                     THEN AgentThrow(<< "Rebase", "failed", ":" >> \o r.error)
                     ELSE AgentReturn(FALSE, << "Rebase", "failed", ":" >> \o r.error)
    /\ UNCHANGED << impl, checkRuns, repoSettings, ciStatus, agentStatus, prStats >>
    /\ UNCHANGED batchVars
    /\ UNCHANGED envVars
    /\ UNCHANGED waitVars

(* mergePR(repo, prNumber, useAutoMerge) and the final return *)
MergePR ==
    /\ pc = "mergePR"
    /\ LET useAutoMerge == UseAutoMerge(repoSettings)
       IN  /\ Call("mergePR", AgentPR, IF useAutoMerge THEN "auto" ELSE "direct")
           /\ \/ /\ AgentReturn(TRUE, << "Successfully",
                                         IF useAutoMerge THEN "auto-merged" ELSE "merged", "PR" >>)
                 /\ NoFail
              \/ /\ AgentThrow(<< "Failed", "to", "merge", "PR", ":" >> \o GenericErr)
                 /\ Fail("mergePR", AgentPR)
    /\ UNCHANGED << impl, checkRuns, repoSettings, ciStatus >>
    /\ UNCHANGED agentVars
    /\ UNCHANGED envVars
    /\ UNCHANGED waitVars
    /\ UNCHANGED batchVars

InitCursor ==
    /\ impl \in AgentImpls
    /\ checkRuns \in BatchCheckRuns
    /\ pc = "agentStatus"
    /\ prNumbers = << >>
    /\ shouldMerge = FALSE
    /\ approved = {}
    /\ idx = 0
    /\ results = << >>
    /\ errors = << >>
    /\ repoSettings = Null
    /\ alreadyApproved = FALSE
    /\ authWarning = << >>
    /\ reviews = {}
    /\ sha = ""
    /\ ciStatus = Null
    /\ prStatus = Null
    /\ mergeStrategy = "null"
    /\ mergeMessage = << >>
    /\ canProceed = TRUE
    /\ calls = << >>
    /\ faults = MaxFailures
    /\ failed = << >>
    /\ ret = Null
    /\ agentStatus = Null
    /\ prStats = Null
    /\ rebaseResult = Null
    /\ ghHead = "sha1"
    /\ ghStderr = << >>
    /\ pollStatus = ""
    /\ attempts = 0
    /\ ghRepo = Null

NextCursor ==
    \/ GetAgentStatus
    \/ AgentCheckGHCLI
    \/ CollectPRStats
    \/ CheckRepositorySettings
    \/ AttemptRebase
    \/ MergePR

SpecCursor == InitCursor /\ [][NextCursor]_vars

----------------------------------------------------------------------------
(* The batch with merge requested and every collaborator call succeeding:  *)
(* PurityLen merge decisions in one invocation                             *)

PurityLen == 3

InitPurity ==
    /\ impl \in Impls
    /\ prNumbers \in {b \in SeqsUpTo(PRs, PurityLen) : Len(b) = PurityLen /\ b[1] = "101"}
    /\ shouldMerge = TRUE
    /\ approved \in SUBSET {"101"}
    /\ pc = IF impl = "tool" THEN "checkGHCLI" ELSE "settings"
    /\ idx = 0
    /\ results = << >>
    /\ errors = << >>
    /\ repoSettings = Null
    /\ alreadyApproved = FALSE
    /\ authWarning = << >>
    /\ reviews = {}
    /\ sha = ""
    /\ ciStatus = Null
    /\ prStatus = Null
    /\ mergeStrategy = "null"
    /\ mergeMessage = << >>
    /\ canProceed = TRUE
    /\ checkRuns = << >>
    /\ calls = << >>
    /\ faults = 0
    /\ failed = << >>
    /\ ret = Null
    /\ agentStatus = Null
    /\ prStats = Null
    /\ rebaseResult = Null
    /\ ghHead = "sha1"
    /\ ghStderr = << >>
    /\ pollStatus = ""
    /\ attempts = 0
    /\ ghRepo = Null

SpecPurity == InitPurity /\ [][Next]_vars

----------------------------------------------------------------------------
(* One PR approved and merged on a repository whose settings are fixed before
   the invocation, every collaborator call succeeding *)

InitMethods ==
    /\ impl \in Impls
    /\ prNumbers = << "101" >>
    /\ shouldMerge = TRUE
    /\ approved \in SUBSET {"101"}
    /\ ghRepo \in RepoData
    /\ pc = IF impl = "tool" THEN "checkGHCLI" ELSE "settings"
    /\ idx = 0
    /\ results = << >>
    /\ errors = << >>
    /\ repoSettings = Null
    /\ alreadyApproved = FALSE
    /\ authWarning = << >>
    /\ reviews = {}
    /\ sha = ""
    /\ ciStatus = Null
    /\ prStatus = Null
    /\ mergeStrategy = "null"
    /\ mergeMessage = << >>
    /\ canProceed = TRUE
    /\ checkRuns = << >>
    /\ calls = << >>
    /\ faults = 0
    /\ failed = << >>
    /\ ret = Null
    /\ agentStatus = Null
    /\ prStats = Null
    /\ rebaseResult = Null
    /\ ghHead = "sha1"
    /\ ghStderr = << >>
    /\ pollStatus = ""
    /\ attempts = 0

SpecMethods == InitMethods /\ [][Next]_vars

----------------------------------------------------------------------------
(* Waiting for an agent: cursorWaitUntilDone.handler                       *)
(*   agentTool   tools/cursorAgent/tools/cursorWaitUntilDone.js            *)
(*   agentScript manage-agent.js                                           *)

maxAttempts == 60

(* What GET /v0/agents/<id> may report as the status of the agent *)
AgentStatuses == {"CREATING", "RUNNING", "FINISHED", "ERROR", "EXPIRED"}

(* The statuses an agent last seen as s may be reported with: it is created,
   runs and ends, and does not go back *)
AgentMayBecome(s) ==
    IF s = "CREATING" THEN AgentStatuses
    ELSE IF s = "RUNNING" THEN AgentStatuses \ {"CREATING"}
    ELSE {s}

(* status === "CREATING" || status === "RUNNING" *)
StillWorking(s) == s = "CREATING" \/ s = "RUNNING"

(* while ((status === "CREATING" || status === "RUNNING") && attempts < maxAttempts) *)
KeepsPolling(s, n) == StillWorking(s) /\ n < maxAttempts

(* _pollingInfo of the returned object *)
PollingInfo(n, s) ==
    [attempts |-> n, totalWaitTimeSeconds |-> n * 30, status |-> s]

(* One turn of the loop: the status request, then the sleep of pollInterval
   while the agent is still working *)
PollStatus ==
    /\ pc = "poll"
    /\ KeepsPolling(pollStatus, attempts)
    /\ attempts' = attempts + 1
    /\ Call("cursorGetAgentStatus", "", "-")
    /\ \/ \E s \in AgentMayBecome(pollStatus) :
            /\ pollStatus' = s
            /\ NoFail
            /\ UNCHANGED << pc, ret >>
       \/ /\ Fail("cursorGetAgentStatus", "")
          /\ pc' = "thrown"
          /\ ret' = [kind |-> "threw", message |-> << "Request", "failed" >>]
          /\ UNCHANGED pollStatus
    /\ UNCHANGED << impl, checkRuns, repoSettings, ciStatus >>
    /\ UNCHANGED batchVars
    /\ UNCHANGED agentVars
    /\ UNCHANGED envVars

(* After the loop: the tool asks for the status once more and returns that
   answer; the script reads `result`, which is declared with const inside the
   body of the loop and is not defined after it *)
ReturnStatus ==
    /\ pc = "poll"
    /\ ~KeepsPolling(pollStatus, attempts)
    /\ IF impl = "agentTool"
       THEN /\ Call("cursorGetAgentStatus", "", "-")
            /\ \/ \E s \in AgentMayBecome(pollStatus) :
                    /\ pc' = "done"
                    /\ ret' = [kind |-> "returned", status |-> s,
                               pollingInfo |-> PollingInfo(attempts, s)]
                    /\ NoFail
               \/ /\ Fail("cursorGetAgentStatus", "")
                  /\ pc' = "thrown"
                  /\ ret' = [kind |-> "threw", message |-> << "Request", "failed" >>]
       ELSE /\ pc' = "thrown"
            /\ ret' = [kind |-> "threw",
                       message |-> << "ReferenceError", ":", "result", "is", "not", "defined" >>]
            /\ UNCHANGED << calls, failed, ghStderr >>
    /\ UNCHANGED << impl, checkRuns, repoSettings, ciStatus >>
    /\ UNCHANGED batchVars
    /\ UNCHANGED agentVars
    /\ UNCHANGED envVars
    /\ UNCHANGED waitVars

InitWait ==
    /\ impl \in AgentImpls
    /\ pc = "poll"
    /\ pollStatus = "CREATING"
    /\ attempts = 0
    /\ checkRuns = << >>
    /\ prNumbers = << >>
    /\ shouldMerge = FALSE
    /\ approved = {}
    /\ idx = 0
    /\ results = << >>
    /\ errors = << >>
    /\ repoSettings = Null
    /\ alreadyApproved = FALSE
    /\ authWarning = << >>
    /\ reviews = {}
    /\ sha = ""
    /\ ciStatus = Null
    /\ prStatus = Null
    /\ mergeStrategy = "null"
    /\ mergeMessage = << >>
    /\ canProceed = TRUE
    /\ calls = << >>
    /\ faults = MaxFailures
    /\ failed = << >>
    /\ ret = Null
    /\ agentStatus = Null
    /\ prStats = Null
    /\ rebaseResult = Null
    /\ ghHead = "sha1"
    /\ ghStderr = <<>>
    /\ ghRepo = Null

NextWait ==
    \/ PollStatus
    \/ ReturnStatus

SpecWait == InitWait /\ [][NextWait]_vars

----------------------------------------------------------------------------
(* One PR approved and merged while another actor may push a commit to its
   branch, every collaborator call succeeding *)

(* Another actor pushes to the branch of the PR: its head moves *)
PushHead ==
    /\ pc \notin {"done", "thrown"}
    /\ ghHead = "sha1"
    /\ ghHead' = "sha2"
    /\ UNCHANGED << impl, pc, prNumbers, shouldMerge, idx, results, errors, repoSettings,
                    alreadyApproved, authWarning, reviews, sha, ciStatus, prStatus,
                    mergeStrategy, mergeMessage, canProceed, checkRuns, approved,
                    calls, faults, failed, ret, ghRepo, ghStderr >>
    /\ UNCHANGED agentVars
    /\ UNCHANGED waitVars

InitHead ==
    /\ impl \in Impls
    /\ prNumbers = << "101" >>
    /\ shouldMerge = TRUE
    /\ approved \in SUBSET {"101"}
    /\ ghHead = "sha1"
    /\ ghRepo = Null
    /\ pc = IF impl = "tool" THEN "checkGHCLI" ELSE "settings"
    /\ idx = 0
    /\ results = << >>
    /\ errors = << >>
    /\ repoSettings = Null
    /\ alreadyApproved = FALSE
    /\ authWarning = << >>
    /\ reviews = {}
    /\ sha = ""
    /\ ciStatus = Null
    /\ prStatus = Null
    /\ mergeStrategy = "null"
    /\ mergeMessage = << >>
    /\ canProceed = TRUE
    /\ checkRuns = << >>
    /\ calls = << >>
    /\ faults = 0
    /\ failed = << >>
    /\ ret = Null
    /\ agentStatus = Null
    /\ prStats = Null
    /\ rebaseResult = Null
    /\ ghStderr = <<>>
    /\ pollStatus = ""
    /\ attempts = 0

NextHead ==
    \/ Next
    \/ PushHead

SpecHead == InitHead /\ [][NextHead]_vars

----------------------------------------------------------------------------
(* Properties *)

HasMergeResult(k) == results[k].mergeResult # Null

LinearNoAuto == repoSettings # Null /\ repoSettings.linearHistory /\ ~repoSettings.allowAutoMerge

LinearAuto == repoSettings # Null /\ repoSettings.linearHistory /\ repoSettings.allowAutoMerge

IsMergeCall(c) == c.fn \in {"enableAutoMerge", "manualMerge"}

IterationOver == pc \in {"loop", "done"}

RebaseRequired(message) == Includes(message, << "Rebase", "required" >>)

(* C1 as stated: with linearHistory and without allowAutoMerge every approved PR
   of a merge batch gets the decision 'blocked' with 'Rebase required',
   whatever happens to the collection of its CI status. *)
C1_Original ==
    (IterationOver /\ shouldMerge /\ LinearNoAuto) =>
        \A k \in 1..Len(results) :
            /\ HasMergeResult(k)
            /\ results[k].mergeResult.strategy = "blocked"
            /\ RebaseRequired(results[k].mergeResult.message)

(* C1 amended: with linearHistory and without allowAutoMerge no merge call is
   ever issued, and every approved PR whose CI status and PR status were
   collected is 'blocked' with 'Rebase required' for every CI status; the
   statuses are collected before the policy is applied, and a PR for which
   that collection fails gets a 'Merge validation failed' error and no
   decision. *)
C1_LinearHistoryBlocks ==
    (shouldMerge /\ LinearNoAuto) =>
        /\ \A c \in 1..Len(calls) : ~IsMergeCall(calls[c])
        /\ IterationOver =>
             \A k \in 1..Len(results) :
                IF HasMergeResult(k)
                THEN /\ results[k].mergeResult.strategy = "blocked"
                     /\ RebaseRequired(results[k].mergeResult.message)
                ELSE /\ \E f \in 1..Len(failed) :
                          /\ failed[f].pr = results[k].prNumber
                          /\ failed[f].fn \in {"prStatus", "checkRuns"}
                     /\ \E e \in 1..Len(errors) :
                          /\ errors[e].prNumber = results[k].prNumber
                          /\ Includes(errors[e].error, << "Merge", "validation", "failed" >>)

C1_Witness ==
    /\ shouldMerge /\ LinearNoAuto
    /\ \E k \in 1..Len(results) :
         /\ HasMergeResult(k)
         /\ results[k].mergeResult.ciStatus.overall = "success"
         /\ results[k].mergeResult.strategy = "blocked"

FailedNoPass(ci) == ci # Null /\ ci.overall = "failure" /\ Len(ci.required) = 0

(* C2 as stated: for every repository settings, CI 'failure' with no passed
   check gives 'blocked', and no merge call is issued. *)
C2_Original ==
    /\ pc = "merge" => ~FailedNoPass(ciStatus)
    /\ \A k \in 1..Len(results) :
         (HasMergeResult(k) /\ FailedNoPass(results[k].mergeResult.ciStatus))
             => results[k].mergeResult.strategy = "blocked"

(* C2 amended: unless the repository has linearHistory together with
   allowAutoMerge, CI 'failure' with no passed check gives 'blocked' and no
   merge call is issued, also when allowAutoMerge is true. *)
C2_FailureWithoutPassBlocks ==
    ~LinearAuto =>
        /\ pc = "merge" => ~FailedNoPass(ciStatus)
        /\ \A k \in 1..Len(results) :
             (HasMergeResult(k) /\ FailedNoPass(results[k].mergeResult.ciStatus))
                 => results[k].mergeResult.strategy = "blocked"

C2_Witness ==
    /\ repoSettings # Null /\ repoSettings.allowAutoMerge /\ ~repoSettings.linearHistory
    /\ \E k \in 1..Len(results) :
         /\ HasMergeResult(k)
         /\ FailedNoPass(results[k].mergeResult.ciStatus)
         /\ results[k].mergeResult.strategy = "blocked"

HasFailedRun(runs) ==
    \E k \in 1..Len(runs) : runs[k].conclusion \in {"failure", "cancelled"}

HasRunningRun(runs) ==
    \E k \in 1..Len(runs) : runs[k].status \in {"in_progress", "queued"}

(* C3: a check-run list with at least one 'failure' or 'cancelled' conclusion
   aggregates to overall 'failure' and canMerge false. *)
C3_FailureDominates ==
    (pc = "aggregated" /\ HasFailedRun(checkRuns)) =>
        /\ ciStatus.overall = "failure"
        /\ ciStatus.canMerge = FALSE

C3_Witness ==
    /\ pc = "aggregated"
    /\ Len(checkRuns) = 2
    /\ checkRuns[1].conclusion = "success"
    /\ checkRuns[2].conclusion = "cancelled" /\ checkRuns[2].status = "queued"
    /\ ciStatus.overall = "failure"

(* C4: overall is 'failure' if errors is non-empty, else 'pending' if
   stillRunning is non-empty, else 'success' if required is non-empty, else
   'no_checks'; the empty list gives 'no_checks', and a list without failed
   or cancelled runs but with a running or queued one gives 'pending'. *)
C4_OverallPrecedence ==
    pc = "aggregated" =>
        /\ ciStatus.overall =
             IF Len(ciStatus.errors) > 0 THEN "failure"
             ELSE IF Len(ciStatus.stillRunning) > 0 THEN "pending"
             ELSE IF Len(ciStatus.required) > 0 THEN "success"
             ELSE "no_checks"
        /\ checkRuns = << >> => ciStatus.overall = "no_checks"
        /\ (~HasFailedRun(checkRuns) /\ HasRunningRun(checkRuns)) => ciStatus.overall = "pending"

C4_Witness ==
    /\ pc = "aggregated"
    /\ Len(ciStatus.errors) = 0
    /\ Len(ciStatus.stillRunning) = 1
    /\ Len(ciStatus.required) = 1
    /\ ciStatus.overall = "pending"

(* C5: two merge decisions of one invocation taken on equal CI status and PR
   status (the repository settings are those of the invocation) have the same
   strategy and the same message, whatever was decided for the PRs in between. *)
C5_DecisionIsFunction ==
    \A a, b \in 1..Len(results) :
        (/\ HasMergeResult(a) /\ HasMergeResult(b)
         /\ results[a].mergeResult.ciStatus = results[b].mergeResult.ciStatus
         /\ results[a].mergeResult.prStatus = results[b].mergeResult.prStatus)
        => /\ results[a].mergeResult.strategy = results[b].mergeResult.strategy
           /\ results[a].mergeResult.message = results[b].mergeResult.message

C5_Witness ==
    /\ Len(results) = 3
    /\ \A k \in 1..3 : HasMergeResult(k)
    /\ results[1].mergeResult.strategy = "manual-merge"
    /\ results[2].mergeResult.strategy = "blocked"
    /\ results[3].mergeResult.ciStatus = results[1].mergeResult.ciStatus
    /\ results[3].mergeResult.strategy = "manual-merge"

RebaseFailed == \E f \in 1..Len(failed) : failed[f].fn = "attemptRebase"

MergePRCalls == {k \in 1..Len(calls) : calls[k].fn = "mergePR"}

(* C6: a mergePR call is issued only after an attemptRebase call for the same
   PR that succeeded, and once the rebase attempt has failed (conflict, other
   non-zero exit, spawn error) no mergePR call is issued. *)
C6_MergeOnlyAfterRebase ==
    /\ \A k \in MergePRCalls :
         /\ ~RebaseFailed
         /\ \E j \in 1..(k - 1) : calls[j].fn = "attemptRebase" /\ calls[j].pr = calls[k].pr
    /\ RebaseFailed => (MergePRCalls = {} /\ pc # "mergePR")

C6_Witness ==
    /\ MergePRCalls # {}
    /\ rebaseResult # Null /\ rebaseResult.success
    /\ pc = "done" /\ ret.success

AdvisesFollowUp(message) == Includes(message, << "cursorAddFollowUp" >>)

(* C7: a failed rebase whose stderr contains 'conflict' makes the handler
   return success:false with the cursorAddFollowUp recommendation and never
   merge; a failed rebase whose message has no 'conflict' never gives that
   recommendation. *)
C7_ConflictAdvice ==
    RebaseFailed =>
        IF rebaseResult # Null /\ Includes(rebaseResult.error, << "conflict" >>)
        THEN /\ ret.kind = "returned"
             /\ ret.success = FALSE
             /\ AdvisesFollowUp(ret.message)
             /\ MergePRCalls = {}
        ELSE ~AdvisesFollowUp(ret.message)

C7_Witness ==
    /\ RebaseFailed
    /\ rebaseResult # Null /\ rebaseResult.error = << "conflict", "in", "file" >>
    /\ ret.kind = "returned" /\ AdvisesFollowUp(ret.message)

(* What the Merge Gate policy selects for the PR of the agent *)
GatePolicy == Decide(DeclareLocals, repoSettings, AggregateCI("tool", checkRuns))

(* C8 as stated: the merge executed after a successful rebase is the one the
   Merge Gate policy selects from the repository settings and the CI status,
   and none is executed when the policy yields 'blocked'. *)
C8_Original ==
    \A k \in MergePRCalls :
        /\ GatePolicy.canProceed
        /\ GatePolicy.mergeStrategy # "null"
        /\ (calls[k].mode = "auto") = (GatePolicy.mergeStrategy = "auto-merge")

(* C8 amended: after a successful rebase exactly one mergePR call is issued,
   with --auto exactly when repoSettings.allowAutoMerge is true and as a direct
   merge otherwise; neither linearHistory nor the CI status is consulted. *)
C8_MergeFollowsAllowAutoMerge ==
    /\ Cardinality(MergePRCalls) <= 1
    /\ \A k \in MergePRCalls :
         calls[k].mode = IF repoSettings.allowAutoMerge THEN "auto" ELSE "direct"
    /\ (pc \in {"done", "thrown"} /\ rebaseResult # Null /\ rebaseResult.success)
           => Cardinality(MergePRCalls) = 1

C8_Witness ==
    /\ pc = "done" /\ ret.success
    /\ repoSettings.linearHistory /\ ~repoSettings.allowAutoMerge
    /\ AggregateCI("tool", checkRuns).overall = "failure"
    /\ \E k \in MergePRCalls : calls[k].mode = "direct"

PerPRErrorFns == {"approve", "prStatus", "checkRuns", "merge"}

BlockedResults ==
    {k \in 1..Len(results) : HasMergeResult(k) /\ results[k].mergeResult.strategy = "blocked"}

(* C9 as stated: every failed collaborator call of the batch (repository
   settings, PR status, CI status, approval check, approval, merge) has an
   entry for its PR in errors. *)
C9_Original ==
    pc = "done" =>
        \A f \in 1..Len(failed) :
            \E e \in 1..Len(errors) : failed[f].pr = "" \/ errors[e].prNumber = failed[f].pr

(* C9 amended: a failed approval, PR status, CI status or merge call has an
   entry for its PR in errors; a failed repository-settings call or
   already-approved check is swallowed and leaves no entry, so errors holds
   exactly one entry per such failed call and one per blocked merge. *)
C9_FailuresSurfaced ==
    /\ \A f \in 1..Len(failed) :
         failed[f].fn \in PerPRErrorFns =>
             \E e \in 1..Len(errors) : errors[e].prNumber = failed[f].pr
    /\ Len(errors) = Cardinality({f \in 1..Len(failed) : failed[f].fn \in PerPRErrorFns})
                     + Cardinality(BlockedResults)

C9_Witness ==
    /\ pc = "done"
    /\ \E f \in 1..Len(failed) : failed[f].fn = "checkRuns"
    /\ \E e \in 1..Len(errors) : Includes(errors[e].error, << "Merge", "validation", "failed" >>)

IsReviewsCall(c) == c.fn = "reviews"

ReviewsCalls == SelectSeq(calls, IsReviewsCall)

(* C10: once the up-front CLI check has passed the handler never throws, and
   when it returns the approval step was attempted for every PR of the batch,
   in order, whatever calls failed before; it returns the batch summary. *)
C10_FailureIsolation ==
    /\ pc = "thrown" => (Len(calls) = 1 /\ calls[1].fn = "authStatus")
    /\ pc = "done" =>
         /\ ret.kind = "returned"
         /\ ret.data.total = Len(prNumbers)
         /\ Len(ReviewsCalls) = Len(prNumbers)
         /\ \A k \in 1..Len(prNumbers) : ReviewsCalls[k].pr = prNumbers[k]
         /\ \A k \in 1..Len(prNumbers) :
              \/ \E r \in 1..Len(results) : results[r].prNumber = prNumbers[k]
              \/ \E e \in 1..Len(errors) : errors[e].prNumber = prNumbers[k]

C10_Witness ==
    /\ pc = "done"
    /\ prNumbers = << "101", "102" >>
    /\ Len(failed) = 1 /\ failed[1].fn = "approve" /\ failed[1].pr = "101"
    /\ \E r \in 1..Len(results) : results[r].prNumber = "102" /\ ~results[r].skipped

IsSkippedResult(r, pr) ==
    /\ r.prNumber = pr
    /\ r.success
    /\ r.skipped
    /\ r.output = << "Already", "approved" >>

(* The already-approved check of a PR the current user has approved is running *)
CheckingApprovedPR == pc \in {"reviews", "user"} /\ CurPR \in approved

(* C11 as stated: running the approval step for a PR that carries an APPROVED
   review of the current user yields a result with skipped: true and output
   'Already approved', submits no second approval and adds no error entry. *)
C11_Original ==
    [][CheckingApprovedPR =>
           /\ pc' # "approve"
           /\ errors' = errors
           /\ pc = "user" =>
                /\ Len(results') = Len(results) + 1
                /\ IsSkippedResult(results'[Len(results')], CurPR)]_vars

(* C11 amended: when the approval step runs for a PR that carries an APPROVED
   review of the current user and both calls of its already-approved check
   succeed, the result has skipped: true and output 'Already approved', no
   second approval is submitted and no error entry is added; when a call of
   that check fails, the approval is submitted again. *)
C11_SecondRunSkipped ==
    [][CheckingApprovedPR =>
           /\ errors' = errors
           /\ approved' = approved
           /\ IF failed' = failed
              THEN /\ pc' # "approve"
                   /\ pc = "user" =>
                        /\ Len(results') = Len(results) + 1
                        /\ IsSkippedResult(results'[Len(results')], CurPR)
              ELSE pc' = "approve"]_vars

C11_Witness ==
    /\ prNumbers = << "101", "101" >>
    /\ Len(results) = 2
    /\ ~results[1].skipped /\ results[1].output # << "Already", "approved" >>
    /\ IsSkippedResult(results[2], "101")
    /\ Cardinality({k \in 1..Len(calls) : calls[k].fn = "approve"}) = 1
    /\ errors = << >>

(* The step in which a call of the already-approved check fails because of
   authentication *)
AuthFailedCheck ==
    /\ pc \in {"reviews", "user"}
    /\ Len(failed') = Len(failed) + 1
    /\ ghStderr' \in AuthErrs

(* C12: when the already-approved check fails because of authentication, the
   PR is treated as not yet approved and the approval is attempted anyway,
   nothing is raised or recorded as an error for the failed check, and the
   result of the approval carries the authWarning. *)
C12_Original ==
    /\ [][AuthFailedCheck =>
             /\ pc' = "approve"
             /\ alreadyApproved' = FALSE
             /\ errors' = errors
             /\ ret' = ret
             /\ authWarning' = AuthWarningMsg]_vars
    /\ [][(pc = "approve" /\ Len(results') = Len(results) + 1) =>
             results'[Len(results')].authWarning = authWarning]_vars

IsPRCall(c) == c.pr # ""

(* The collaborator calls made for a PR, in the order they were issued *)
PRCalls == SelectSeq(calls, IsPRCall)

Distinct(b) == \A i, j \in 1..Len(b) : i # j => b[i] # b[j]

Pos(pr) == CHOOSE i \in 1..Len(prNumbers) : prNumbers[i] = pr

(* C13: the PRs of a batch are processed one after the other: a step issues at
   most one collaborator call (the handler awaits it before it goes on), a
   call is made only for a PR the loop has reached, and every call made for
   the k-th PR precedes every call made for the (k+1)-th PR (the calls are
   sorted by the position of their PR in the batch). *)
C13_Sequential ==
    /\ [][Len(calls') <= Len(calls) + 1]_vars
    /\ [](LET made == PRCalls
          IN  \A k \in 1..Len(made) : \E i \in 1..idx : made[k].pr = prNumbers[i])
    /\ [](Distinct(prNumbers) =>
             LET made == PRCalls
             IN  \A k \in 1..(Len(made) - 1) : Pos(made[k].pr) <= Pos(made[k + 1].pr))

C13_Witness ==
    /\ pc = "done"
    /\ prNumbers = << "101", "102" >>
    /\ shouldMerge
    /\ \E j, k \in 1..Len(calls) :
         /\ j < k
         /\ IsMergeCall(calls[j]) /\ calls[j].pr = "101"
         /\ calls[k].fn = "reviews" /\ calls[k].pr = "102"
    /\ \E k \in 1..Len(calls) : IsMergeCall(calls[k]) /\ calls[k].pr = "102"

(* Every PR of the batch was approved or skipped and, with --merge, merged or
   set to auto-merge *)
SuccessfulOnly ==
    /\ Len(errors) = 0
    /\ Len(results) = Len(prNumbers)
    /\ shouldMerge =>
         \A k \in 1..Len(results) :
             /\ HasMergeResult(k)
             /\ results[k].mergeResult.strategy \in {"auto-merge", "manual-merge"}

(* C14: the github-approve-pr batch exits non-zero if at least one PR ended in
   an error or a blocked merge, and exits zero when every PR of the batch
   succeeded, for every CI status and repository settings of such a batch. *)
C14_Original ==
    (pc = "done" /\ impl = "cli") =>
        /\ Len(errors) > 0 => ret.exitCode # 0
        /\ SuccessfulOnly => ret.exitCode = 0

IsBlockedEntry(e) ==
    Len(e.error) >= 3 /\ SubSeq(e.error, 1, 3) = << "Merge", "blocked", ":" >>

BlockedEntries == {e \in 1..Len(errors) : IsBlockedEntry(errors[e])}

(* C15: a merge blocked by policy is a normal decision: the PR keeps its
   successful approval entry in results, the entry carries mergeResult with
   strategy 'blocked' and the explanatory message, exactly one entry
   'Merge blocked: <message>' for that PR is added to errors, nothing is
   thrown, and the loop goes on with the next PR. *)
C15_BlockedIsDecision ==
    /\ [](\A k \in BlockedResults :
             /\ results[k].success
             /\ results[k].mergeResult.message # << >>
             /\ \E e \in BlockedEntries :
                  /\ errors[e].prNumber = results[k].prNumber
                  /\ errors[e].error = << "Merge", "blocked", ":" >> \o results[k].mergeResult.message
                  /\ errors[e].ciStatus = results[k].mergeResult.ciStatus)
    /\ [](\A p \in PRs :
             Cardinality({e \in BlockedEntries : errors[e].prNumber = p})
                 = Cardinality({k \in BlockedResults : results[k].prNumber = p}))
    /\ [][(pc = "prStatus" /\ ~(pc' = "merge") /\ failed' = failed) =>
             /\ pc' = "loop"
             /\ Len(results') = Len(results)
             /\ BlockedResults' = BlockedResults \cup {Len(results)}
             /\ Len(errors') = Len(errors) + 1
             /\ IsBlockedEntry(errors'[Len(errors')])
             /\ errors'[Len(errors')].prNumber = CurPR]_vars
    /\ []((pc = "done" /\ failed = << >>) => Len(ReviewsCalls) = Len(prNumbers))

C15_Witness ==
    /\ pc = "done"
    /\ prNumbers = << "101", "102" >>
    /\ Len(results) = 2
    /\ BlockedResults = {1}
    /\ results[1].mergeResult.ciStatus.overall = "pending"
    /\ HasMergeResult(2) /\ results[2].mergeResult.strategy = "manual-merge"
    /\ Len(errors) = 1 /\ IsBlockedEntry(errors[1]) /\ errors[1].prNumber = "101"

(* Approval, CI status, PR status and merge calls *)
TouchesPR(c) ==
    c.fn \in {"approve", "prStatus", "checkRuns", "enableAutoMerge", "manualMerge"}

AuthStatusCalls == {k \in 1..Len(calls) : calls[k].fn = "authStatus"}

(* C16: availability and authentication of the host CLI are checked once, up
   front: an approval, CI status, PR status or merge call is issued only in an
   invocation that began with the check, and when the check fails the
   invocation fails as a whole without any such call. *)
C16_Original ==
    /\ Cardinality(AuthStatusCalls) <= 1
    /\ (\E k \in 1..Len(calls) : TouchesPR(calls[k])) => calls[1].fn = "authStatus"
    /\ pc = "thrown" =>
         /\ ret.kind = "threw"
         /\ \A k \in 1..Len(calls) : ~TouchesPR(calls[k])

(* The merge methods the flags of `gh pr merge` ask for *)
MethodsRequested(args) ==
    (IF "--merge" \in args \/ "-m" \in args THEN {"merge"} ELSE {})
    \cup (IF "--rebase" \in args \/ "-r" \in args THEN {"rebase"} ELSE {})
    \cup (IF "--squash" \in args \/ "-s" \in args THEN {"squash"} ELSE {})

MethodByPrecedence(repo) ==
    IF repo.allow_merge_commit THEN "merge"
    ELSE IF repo.allow_rebase_merge THEN "rebase"
    ELSE IF repo.allow_squash_merge THEN "squash"
    ELSE "none"

MergeCalls == {k \in 1..Len(calls) : IsMergeCall(calls[k])}

(* C17: when the strategy is 'auto-merge', exactly one action is invoked for
   the PR, chosen by the capabilities of the repository: auto-merge with a
   merge commit if allowMergeCommit, else with rebase if allowRebaseMerge,
   else with squash if allowSquashMerge, else a direct manual merge; a method
   of lower precedence is never asked for while a higher one is enabled. *)
C17_Original ==
    mergeStrategy = "auto-merge" =>
        /\ Cardinality(MergeCalls) <= 1
        /\ pc \in {"loop", "done"} => Cardinality(MergeCalls) = 1
        /\ \A k \in MergeCalls :
             LET want == MethodByPrecedence(ghRepo)
             IN  IF want = "none"
                 THEN calls[k].fn = "manualMerge"
                 ELSE /\ calls[k].fn = "enableAutoMerge"
                      /\ MethodsRequested(MergeArgs(impl, calls[k])) = {want}

(* The step in which getPRStatus resolves and the merge decision is taken *)
Decided == pc = "prStatus" /\ failed' = failed

(* The decision that step takes *)
NewStrategy == IF pc' = "merge" THEN mergeStrategy' ELSE "blocked"

NonLinear == repoSettings # Null /\ ~repoSettings.linearHistory

ListsNames(message, checks) ==
    \A k \in 1..Len(checks) : Includes(message, << checks[k].name >>)

(* C18: with linearHistory false and CI overall 'success' or 'no_checks' the
   decision is never 'blocked': it is 'auto-merge' exactly when allowAutoMerge
   is true and 'manual-merge' otherwise. *)
C18_ProceedsWithoutFailures ==
    /\ [][(Decided /\ NonLinear /\ ciStatus.overall \in {"success", "no_checks"}) =>
             /\ NewStrategy = IF repoSettings.allowAutoMerge THEN "auto-merge" ELSE "manual-merge"
             /\ Includes(mergeMessage', << "proceeding", "with", "merge" >>)]_vars
    /\ [](NonLinear =>
             \A k \in 1..Len(results) :
                 (HasMergeResult(k) /\ results[k].mergeResult.ciStatus.overall \in {"success", "no_checks"})
                 => results[k].mergeResult.strategy =
                        IF repoSettings.allowAutoMerge THEN "auto-merge" ELSE "manual-merge")

C18_Witness ==
    /\ NonLinear /\ repoSettings.allowAutoMerge
    /\ \E k \in 1..Len(results) :
         /\ HasMergeResult(k)
         /\ results[k].mergeResult.ciStatus.overall = "success"
         /\ results[k].mergeResult.strategy = "auto-merge"

(* C19: with linearHistory false and CI overall 'pending' the decision is
   'auto-merge' if allowAutoMerge is true and 'blocked' otherwise, and in both
   cases the message names every check that is still running. *)
C19_PendingWaitsOrAutoMerges ==
    /\ [][(Decided /\ NonLinear /\ ciStatus.overall = "pending") =>
             /\ NewStrategy = IF repoSettings.allowAutoMerge THEN "auto-merge" ELSE "blocked"
             /\ Len(ciStatus.stillRunning) > 0
             /\ ListsNames(mergeMessage', ciStatus.stillRunning)]_vars
    /\ [](NonLinear =>
             \A k \in 1..Len(results) :
                 (HasMergeResult(k) /\ results[k].mergeResult.ciStatus.overall = "pending")
                 => /\ results[k].mergeResult.strategy =
                         IF repoSettings.allowAutoMerge THEN "auto-merge" ELSE "blocked"
                    /\ ListsNames(results[k].mergeResult.message,
                                  results[k].mergeResult.ciStatus.stillRunning))

C19_Witness ==
    /\ NonLinear /\ ~repoSettings.allowAutoMerge
    /\ \E k \in 1..Len(results) :
         /\ HasMergeResult(k)
         /\ results[k].mergeResult.ciStatus.overall = "pending"
         /\ Names(results[k].mergeResult.ciStatus.stillRunning) = << "lint" >>
         /\ results[k].mergeResult.strategy = "blocked"
         /\ Includes(results[k].mergeResult.message, << "Waiting", "for", ":", "lint" >>)

(* C20: with linearHistory false and CI overall 'failure' the decision is
   'auto-merge' exactly when at least one check-run passed and allowAutoMerge
   is true, and 'blocked' in every other case; the strategy 'manual-merge' is
   never chosen while a check has failed or was cancelled. *)
C20_FailureBlocksUnlessOverride ==
    /\ [][(Decided /\ NonLinear /\ ciStatus.overall = "failure") =>
             /\ NewStrategy = IF Len(ciStatus.required) > 0 /\ repoSettings.allowAutoMerge
                               THEN "auto-merge" ELSE "blocked"
             /\ ListsNames(mergeMessage', ciStatus.errors)]_vars
    /\ [](\A k \in 1..Len(results) :
             (HasMergeResult(k) /\ Len(results[k].mergeResult.ciStatus.errors) > 0)
             => results[k].mergeResult.strategy # "manual-merge")
    /\ []((pc = "merge" /\ Len(ciStatus.errors) > 0) => mergeStrategy # "manual-merge")

C20_Witness ==
    /\ NonLinear /\ repoSettings.allowAutoMerge
    /\ \E k \in 1..Len(results) :
         /\ HasMergeResult(k)
         /\ results[k].mergeResult.ciStatus.overall = "failure"
         /\ Len(results[k].mergeResult.ciStatus.required) > 0
         /\ results[k].mergeResult.strategy = "auto-merge"

Linear == repoSettings # Null /\ repoSettings.linearHistory

(* C21: the linear-history step of the policy wins over CI: with linearHistory
   and allowAutoMerge both true the decision is 'auto-merge' with the message
   'Linear history required - using auto-merge' for every CI status, and the
   strategy 'manual-merge' is never chosen for a repository that requires
   linear history. *)
C21_LinearAutoMergeWins ==
    /\ [][(Decided /\ LinearAuto) =>
             /\ NewStrategy = "auto-merge"
             /\ mergeMessage' = LinearAutoMsg]_vars
    /\ [](LinearAuto =>
             \A k \in 1..Len(results) :
                 HasMergeResult(k) =>
                     /\ results[k].mergeResult.strategy = "auto-merge"
                     /\ results[k].mergeResult.message = LinearAutoMsg)
    /\ [](Linear =>
             /\ pc = "merge" => mergeStrategy # "manual-merge"
             /\ \A k \in 1..Len(results) :
                  HasMergeResult(k) => results[k].mergeResult.strategy # "manual-merge")

C21_Witness ==
    /\ LinearAuto
    /\ \E k \in 1..Len(results) :
         /\ HasMergeResult(k)
         /\ FailedNoPass(results[k].mergeResult.ciStatus)
         /\ results[k].mergeResult.strategy = "auto-merge"
    /\ \E k \in 1..Len(results) :
         /\ HasMergeResult(k)
         /\ results[k].mergeResult.ciStatus.overall = "pending"
         /\ results[k].mergeResult.strategy = "auto-merge"

(* The step in which the merge call of the current PR resolves *)
Merged == pc = "merge" /\ failed' = failed

(* C22: the Merge Gate executes exactly the action it chose: for a 'blocked'
   decision neither enableAutoMerge nor manualMerge is invoked for that PR;
   when the reported strategy is 'manual-merge' a direct merge and no
   enableAutoMerge was invoked; when the reported strategy is 'auto-merge' an
   enableAutoMerge call and no direct merge was invoked. *)
C22_Original ==
    /\ [][Merged =>
             LET c == calls'[Len(calls')]
                 r == results'[Len(results')].mergeResult
             IN  /\ Len(calls') = Len(calls) + 1
                 /\ c.pr = CurPR
                 /\ r.strategy \in {"auto-merge", "manual-merge"}
                 /\ r.strategy = "manual-merge" => c.fn = "manualMerge"
                 /\ r.strategy = "auto-merge" => c.fn = "enableAutoMerge"]_vars
    /\ [](Distinct(prNumbers) =>
             \A k \in BlockedResults :
                 \A c \in 1..Len(calls) :
                     IsMergeCall(calls[c]) => calls[c].pr # results[k].prNumber)

(* C23: cursorWaitUntilDone polls until the agent is no longer CREATING or
   RUNNING: whenever the handler returns a result, the status it reports in
   _pollingInfo.status is neither 'CREATING' nor 'RUNNING'. *)
C23_Original ==
    (pc = "done" /\ ret.kind = "returned") =>
        ~StillWorking(ret.pollingInfo.status)

(* The bucket the precedence of the claim gives a check-run *)
BucketByPrecedence(run) ==
    IF run.conclusion \in {"failure", "cancelled"} THEN "errors"
    ELSE IF run.status \in {"in_progress", "queued"} THEN "stillRunning"
    ELSE IF run.conclusion = "success" THEN "required"
    ELSE "optional"

Buckets == {"errors", "stillRunning", "required", "optional"}

RECURSIVE RunsOfBucket(_, _)
RunsOfBucket(runs, b) ==
    IF runs = << >> THEN << >>
    ELSE IF BucketByPrecedence(Head(runs)) = b
    THEN << [name |-> Head(runs).name, status |-> Head(runs).status] >> \o RunsOfBucket(Tail(runs), b)
    ELSE RunsOfBucket(Tail(runs), b)

NameAndStatus(list) == [k \in 1..Len(list) |-> [name |-> list[k].name, status |-> list[k].status]]

(* C24: the aggregation puts every check-run of the snapshot in exactly one of
   errors / stillRunning / required / optional, by the precedence conclusion
   in {failure, cancelled} > status in {in_progress, queued} > conclusion
   success > anything else: each bucket holds exactly the runs the precedence
   gives it, in order, so the four sizes sum to the number of check-runs, and a
   queued or running check-run with a failure or cancelled conclusion is in
   errors and not in stillRunning. *)
C24_OneBucketPerRun ==
    pc = "aggregated" =>
        /\ \A b \in Buckets : NameAndStatus(ciStatus[b]) = RunsOfBucket(checkRuns, b)
        /\ Len(ciStatus.errors) + Len(ciStatus.stillRunning)
             + Len(ciStatus.required) + Len(ciStatus.optional) = Len(checkRuns)
        /\ Len(ciStatus.stillRunning) =
             Cardinality({k \in 1..Len(checkRuns) :
                            /\ checkRuns[k].status \in {"in_progress", "queued"}
                            /\ checkRuns[k].conclusion \notin {"failure", "cancelled"}})

C24_Witness ==
    /\ pc = "aggregated"
    /\ Len(checkRuns) = 2
    /\ checkRuns[1].status = "queued" /\ checkRuns[1].conclusion = "failure"
    /\ checkRuns[2].status = "in_progress" /\ checkRuns[2].conclusion = "null"
    /\ Len(ciStatus.errors) = 1 /\ ciStatus.errors[1].name = checkRuns[1].name
    /\ Len(ciStatus.stillRunning) = 1 /\ ciStatus.stillRunning[1].name = checkRuns[2].name

(* CI status, PR status, enableAutoMerge and manualMerge calls *)
IsMergeRelated(c) == c.fn \in {"prStatus", "checkRuns", "enableAutoMerge", "manualMerge"}

ApprovalFailed(pr) == \E f \in 1..Len(failed) : failed[f].fn = "approve" /\ failed[f].pr = pr

(* C25: within the processing of one PR approval precedes merge: a CI status,
   PR status, enableAutoMerge or manualMerge call is issued for a PR only
   after, in the same invocation, its approval succeeded or was skipped as
   already approved, and while the result of that approval is the last entry
   of results; a PR whose approval call failed gets no merge-related call and
   no result, hence no mergeResult. *)
C25_ApprovalPrecedesMerge ==
    /\ pc \in {"ciPr", "ciRuns", "prStatus", "merge"} =>
         /\ Len(results) > 0
         /\ results[Len(results)].prNumber = CurPR
         /\ results[Len(results)].success
    /\ Distinct(prNumbers) =>
         /\ \A k \in 1..Len(calls) :
              IsMergeRelated(calls[k]) =>
                  /\ ~ApprovalFailed(calls[k].pr)
                  /\ \E j \in 1..(k - 1) :
                       /\ calls[j].pr = calls[k].pr
                       /\ \/ calls[j].fn = "approve"
                          \/ /\ calls[j].fn = "user"
                             /\ \E r \in 1..Len(results) : IsSkippedResult(results[r], calls[k].pr)
         /\ \A r \in 1..Len(results) : ~ApprovalFailed(results[r].prNumber)

C25_Witness ==
    /\ pc = "done" /\ shouldMerge
    /\ prNumbers = << "101", "102" >>
    /\ ApprovalFailed("101")
    /\ \A k \in 1..Len(calls) : IsMergeRelated(calls[k]) => calls[k].pr = "102"
    /\ Len(results) = 1 /\ results[1].prNumber = "102" /\ HasMergeResult(1)
    /\ \E k \in 1..Len(calls) : IsMergeCall(calls[k])

EntriesIn(list, pr) == {k \in 1..Len(list) : list[k].prNumber = pr}

(* The approval of the PR succeeded, or the PR was skipped as already approved *)
ApprovedOrSkipped(pr) ==
    \/ \E k \in 1..Len(calls) : calls[k].fn = "approve" /\ calls[k].pr = pr /\ ~ApprovalFailed(pr)
    \/ \E k \in 1..Len(calls) :
          /\ calls[k].fn = "user" /\ calls[k].pr = pr
          /\ ~\E j \in 1..Len(calls) : calls[j].fn = "approve" /\ calls[j].pr = pr

(* C26: batch accounting after the handler returns, for distinct PR numbers:
   total is the number of requested PRs, successful = |results| and failed =
   |errors|; every requested PR has at least one entry across results and
   errors, at most one in results and at most one in errors, and is in results
   exactly when its approval succeeded or was skipped; so successful <= total,
   failed <= total and successful + failed >= total, a PR that was approved
   but whose merge was blocked or failed being counted in both. *)
C26_BatchAccounting ==
    (pc = "done" /\ Distinct(prNumbers)) =>
        LET data == ret.data
        IN  /\ data.total = Len(prNumbers)
            /\ data.successful = Len(data.results)
            /\ data.failed = Len(data.errors)
            /\ \A i \in 1..Len(prNumbers) :
                 LET pr == prNumbers[i]
                     inResults == EntriesIn(data.results, pr)
                     inErrors == EntriesIn(data.errors, pr)
                 IN  /\ Cardinality(inResults) + Cardinality(inErrors) >= 1
                     /\ Cardinality(inResults) <= 1
                     /\ Cardinality(inErrors) <= 1
                     /\ (inResults # {}) = ApprovedOrSkipped(pr)
            /\ \A k \in 1..Len(data.results) : \E i \in 1..Len(prNumbers) : data.results[k].prNumber = prNumbers[i]
            /\ \A k \in 1..Len(data.errors) : \E i \in 1..Len(prNumbers) : data.errors[k].prNumber = prNumbers[i]
            /\ data.successful <= data.total
            /\ data.failed <= data.total
            /\ data.successful + data.failed >= data.total
            /\ data.successful + data.failed - data.total =
                 Cardinality({p \in PRs : EntriesIn(data.results, p) # {} /\ EntriesIn(data.errors, p) # {}})

C26_Witness ==
    /\ pc = "done"
    /\ prNumbers = << "101", "102" >>
    /\ ret.data.total = 2 /\ ret.data.successful = 2 /\ ret.data.failed = 2
    /\ BlockedResults = {1}
    /\ ~HasMergeResult(2)
    /\ \E f \in 1..Len(failed) : failed[f].fn = "merge" /\ failed[f].pr = "102"

SettingsCalls == {k \in 1..Len(calls) : calls[k].fn = "repoSettings"}

SettingsFailed == \E f \in 1..Len(failed) : failed[f].fn = "repoSettings"

(* The decision of the claim when the settings are absent *)
WithoutSettings(ci) ==
    IF ci.overall \in {"success", "no_checks"} THEN "manual-merge" ELSE "blocked"

(* C27: the repository settings are fetched at most once per invocation, only
   when merge is requested and before any PR is processed; when that fetch
   fails the batch goes on with the settings absent, and then the decision for
   every PR is never 'auto-merge' and never the linear-history block: it is
   'manual-merge' for CI success or no_checks and 'blocked' for CI pending or
   failure. *)
C27_SettingsOnceAndOptional ==
    /\ [](/\ Cardinality(SettingsCalls) <= 1
          /\ ~shouldMerge => SettingsCalls = {}
          /\ \A k \in SettingsCalls : \A j \in 1..(k - 1) : ~IsPRCall(calls[j]))
    /\ [](SettingsFailed =>
             /\ repoSettings = Null
             /\ pc # "thrown"
             /\ pc = "done" =>
                  /\ ret.data.repositorySettings = Null
                  /\ Len(ReviewsCalls) = Len(prNumbers)
             /\ \A k \in 1..Len(results) :
                  HasMergeResult(k) =>
                      /\ results[k].mergeResult.strategy = WithoutSettings(results[k].mergeResult.ciStatus)
                      /\ ~RebaseRequired(results[k].mergeResult.message))
    /\ [][(Decided /\ SettingsFailed) =>
             /\ NewStrategy = WithoutSettings(ciStatus)
             /\ ~RebaseRequired(mergeMessage')
             /\ mergeMessage' # LinearAutoMsg]_vars

C27_Witness ==
    /\ pc = "done"
    /\ SettingsFailed
    /\ Len(results) = 2
    /\ HasMergeResult(1) /\ HasMergeResult(2)
    /\ results[1].mergeResult.ciStatus.overall = "pending"
    /\ results[1].mergeResult.strategy = "blocked"
    /\ results[2].mergeResult.ciStatus.overall = "no_checks"
    /\ results[2].mergeResult.strategy = "manual-merge"

(* The step in which result.mergeResult is set *)
MergeResultSet ==
    /\ Len(results') = Len(results)
    /\ Len(results) > 0
    /\ results[Len(results)].mergeResult = Null
    /\ results'[Len(results)].mergeResult # Null

(* C28: within the merge validation of one PR the CI status and the PR status
   describe the same head commit: the check-runs aggregated into ciStatus are
   those of the headSha of the prStatus stored in the same mergeResult, also
   when another actor updates the head of the PR between the collaborator
   calls. *)
C28_Original ==
    [][MergeResultSet => results'[Len(results)].mergeResult.prStatus.headSha = sha]_vars

(* C29: when 'merge after approve' is false the batch only approves: no
   repository-settings, CI status, PR status, enableAutoMerge or manualMerge
   call is issued, no result carries a mergeResult, no 'Merge blocked' or
   'Merge validation failed' error is recorded, and repositorySettings of the
   summary is null. *)
C29_ApproveOnly ==
    ~shouldMerge =>
        /\ \A k \in 1..Len(calls) :
             calls[k].fn \in {"authStatus", "reviews", "user", "approve"}
        /\ pc \notin {"ciPr", "ciRuns", "prStatus", "merge"}
        /\ \A k \in 1..Len(results) : results[k].mergeResult = Null
        /\ BlockedEntries = {}
        /\ \A e \in 1..Len(errors) : ~Includes(errors[e].error, << "Merge" >>)
        /\ repoSettings = Null
        /\ pc = "done" => ret.data.repositorySettings = Null

C29_Witness ==
    /\ ~shouldMerge
    /\ pc = "done"
    /\ prNumbers = << "101", "102" >>
    /\ Len(results) = 2
    /\ results[1].skipped /\ ~results[2].skipped
    /\ ret.data.successful = 2 /\ ret.data.failed = 0

(* The branch update and the merge *)
MutatingCalls == {k \in 1..Len(calls) : calls[k].fn \in {"attemptRebase", "mergePR"}}

NothingToMerge(message) ==
    /\ MutatingCalls = {}
    /\ pc = "done"
    /\ ret.kind = "returned"
    /\ ret.success = FALSE
    /\ ret.message = message

(* C30: cursorMergePullRequest issues neither the branch update nor the merge
   and returns success:false when the agent has no PR URL, when the PR is
   already merged, or when the state of the PR is not 'open'; the merged check
   comes first, so an already-merged PR is reported as already merged and not
   as canceled. *)
C30_NothingToMerge ==
    /\ (agentStatus # Null /\ agentStatus.target.prUrl = "none") =>
         /\ NothingToMerge(<< "No", "changes", "made", ",", "nothing", "to", "PR", "." >>)
         /\ Len(calls) = 1
    /\ (prStats # Null /\ prStats.merged) =>
         NothingToMerge(<< "This", "PR", "has", "already", "been", "merged", "." >>)
    /\ (prStats # Null /\ ~prStats.merged /\ prStats.state # "open") =>
         NothingToMerge(<< "This", "PR", "has", "been", "canceled", "." >>)
    /\ MutatingCalls # {} =>
         (prStats # Null /\ ~prStats.merged /\ prStats.state = "open")

C30_Witness ==
    /\ pc = "done"
    /\ prStats # Null /\ prStats.merged /\ prStats.state = "closed"
    /\ ret.success = FALSE
    /\ Includes(ret.message, << "already", "been", "merged" >>)
    /\ MutatingCalls = {}

====
